---------------------------- MODULE Spec2Model ----------------------------
(***************************************************************************)
(* Model of datacore's query-resolution pipeline and metric-to-SQL         *)
(* compiler:                                                               *)
(*   web_ui/backend/llm_query_parser.py  LLMQueryParser,                   *)
(*                                       LLMQueryParserWithAPI             *)
(*   web_ui/backend/main.py              get_measure_info,                 *)
(*                                       generate_metric_sql,              *)
(*                                       query_metric,                     *)
(*                                       query_metric_natural              *)
(*   web_ui/backend/metricflow_client.py MetricFlowClient                  *)
(*                                                                         *)
(* Representation.  A Python str that the code searches or parses is a     *)
(* sequence of atoms (TLA+ strings): one atom per digit, per separator and *)
(* per CJK character, and one atom per English word or identifier chunk,   *)
(* cut so that every substring relation the code tests is a contiguous     *)
(* sub-sequence relation.  A Python value is a record [k, v]: k is the     *)
(* Python type, v a sequence of strings (the atoms of a str, the items of  *)
(* a list, the flattened key/value pairs of a dict).  An operation either  *)
(* returns a value or raises: [ok |-> TRUE/FALSE, ...].                    *)
(***************************************************************************)
EXTENDS Integers, Sequences, FiniteSets, TLC

-----------------------------------------------------------------------------
(* The state: a clock and the call being made on the library *)

VARIABLES
    today,      \* the day datetime.now() gives
    pc,         \* "idle", "deepseek", "openai" (awaiting that service), "done", "again"
    op,         \* the function called
    args,       \* its arguments
    reply,      \* what the service asked last answered
    requests,   \* the services reached during the call, in order
    ret,        \* what the call returned or raised
    ret2,       \* what the same call, repeated, returned or raised
    metricflow_client,  \* main._metricflow_client, the process-wide client
    openai_api_key      \* the module attribute openai.api_key

vars == <<today, pc, op, args, reply, requests, ret, ret2, metricflow_client, openai_api_key>>

-----------------------------------------------------------------------------
(* Generic sequence helpers *)

RECURSIVE Cat(_)
\* concatenation of a sequence of sequences
Cat(ss) == IF ss = <<>> THEN <<>> ELSE Head(ss) \o Cat(Tail(ss))

\* s[i..j] with Python slice clamping
Slice(s, i, j) == IF i > j THEN <<>> ELSE SubSeq(s, i, j)

\* key occurs at position i of s
MatchAt(key, s, i) ==
    /\ i >= 1
    /\ i + Len(key) - 1 <= Len(s)
    /\ \A j \in 1..Len(key) : s[i + j - 1] = key[j]

\* Python `key in s` on strings: key is a contiguous sub-sequence of s
InStr(key, s) ==
    \E i \in 1..(Len(s) - Len(key) + 1) : \A j \in 1..Len(key) : s[i + j - 1] = key[j]

\* Python `x in list`
InList(x, l) == \E i \in 1..Len(l) : l[i] = x

-----------------------------------------------------------------------------
(* Characters *)

Digits == <<"0", "1", "2", "3", "4", "5", "6", "7", "8", "9">>

IsDigit(a) == \E i \in 1..10 : Digits[i] = a

DigitVal(a) == (CHOOSE i \in 1..10 : Digits[i] = a) - 1

\* the [-/] class of date_pattern
IsDateSep(a) == a \in {"-", "/"}

\* The CJK characters ([U+4E00-U+9FA5]) are written as their pinyin with tone,
\* one atom per character; a letter tells homophones apart.
CJK == {"jin1", "tian1", "zuo2", "ben3", "zhou1", "yue4", "zui4", "jin4",
        "ri4", "shou1", "fei4", "ru4", "jiao1", "yi4", "bi3", "shu4",
        "zheng4", "chang2", "lv4", "ping2", "jun1", "jin1b", "e2",
        "zhi4", "liang4", "cha2", "xun2", "de5", "cheng2", "shi4",
        "zhan4", "che1", "xing2", "bei3", "jing1", "shang4", "hai3",
        "jin1c"}

IsCJK(a) == a \in CJK

\* str.lower() per atom
LowerAtom(a) ==
    CASE a = "Today" -> "today"
      [] a = "Last"  -> "last"
      [] a = "City"  -> "city"
      [] a = "DeepSeek" -> "deepseek"
      [] a = "OpenAI" -> "openai"
      [] OTHER       -> a

Lower(s) == [i \in 1..Len(s) |-> LowerAtom(s[i])]

RECURSIVE IntOf(_)
\* int(digits).  Python integers are unbounded; every value above 2*10^9 is
\* held as 2*10^9, which the code treats alike (beyond timedelta's range).
IntOf(ds) ==
    LET Shift(p) == IF p >= 200000000 THEN 2000000000 ELSE p * 10 + DigitVal(ds[Len(ds)])
    IN IF ds = <<>> THEN 0 ELSE Shift(IntOf(SubSeq(ds, 1, Len(ds) - 1)))

RECURSIVE StrOf(_)
\* str(n) for n >= 0
StrOf(n) == IF n < 10 THEN <<Digits[n + 1]>> ELSE StrOf(n \div 10) \o <<Digits[(n % 10) + 1]>>

RECURSIVE ZFill(_, _)
\* str.zfill(w)
ZFill(s, w) == IF Len(s) >= w THEN s ELSE ZFill(<<"0">> \o s, w)

-----------------------------------------------------------------------------
(* Calendar: the datetime library as the code uses it.  A day is its       *)
(* proleptic Gregorian ordinal (0001-01-01 is day 1).                      *)

IsLeap(y) == (y % 4 = 0) /\ ((y % 100 # 0) \/ (y % 400 = 0))

DaysInMonth(y, m) ==
    CASE m \in {1, 3, 5, 7, 8, 10, 12} -> 31
      [] m \in {4, 6, 9, 11}           -> 30
      [] OTHER                         -> IF IsLeap(y) THEN 29 ELSE 28

DaysBeforeMonth(y, m) ==
    <<0, 31, 59, 90, 120, 151, 181, 212, 243, 273, 304, 334>>[m]
      + (IF m > 2 /\ IsLeap(y) THEN 1 ELSE 0)

DaysBeforeYear(y) ==
    LET p == y - 1 IN p * 365 + (p \div 4) - (p \div 100) + (p \div 400)

\* date(y, m, d).toordinal()
Ymd2Ord(y, m, d) == DaysBeforeYear(y) + DaysBeforeMonth(y, m) + d

\* the year of an ordinal
YearOfOrd(n) ==
    LET guess == (((n - 1) * 400) \div 146097) + 1
    IN CHOOSE y \in (guess - 1)..(guess + 1) :
          DaysBeforeYear(y) < n /\ n <= DaysBeforeYear(y + 1)

\* date.fromordinal(n) as <<year, month, day>>
Ord2Ymd(n) ==
    LET MonthOf(y, doy) == CHOOSE k \in 1..12 :
                              DaysBeforeMonth(y, k) < doy
                              /\ doy <= DaysBeforeMonth(y, k) + DaysInMonth(y, k)
        InMonth(y, m, doy) == <<y, m, doy - DaysBeforeMonth(y, m)>>
        InYear(y, doy) == InMonth(y, MonthOf(y, doy), doy)
        OfYear(y) == InYear(y, n - DaysBeforeYear(y))
    IN OfYear(YearOfOrd(n))

\* date.weekday(): Monday is 0
Weekday(n) == (n + 6) % 7

\* strftime('%Y-%m-%d')
Strftime(n) ==
    LET Format(ymd) == ZFill(StrOf(ymd[1]), 4) \o <<"-">> \o ZFill(StrOf(ymd[2]), 2)
                         \o <<"-">> \o ZFill(StrOf(ymd[3]), 2)
    IN Format(Ord2Ymd(n))

\* timedelta(days=n): OverflowError beyond +-999999999 days
TimedeltaOk(n) == n <= 999999999 /\ n >= -999999999

\* date - timedelta(days=n): OverflowError outside 0001-01-01..9999-12-31
DateMinusOk(day, n) == TimedeltaOk(n) /\ day - n >= 1 /\ day - n <= 3652059

-----------------------------------------------------------------------------
(* Python values *)

None == [k |-> "null", v |-> <<>>]
Str(atoms) == [k |-> "str", v |-> atoms]
List(items) == [k |-> "list", v |-> items]
\* a dict with its items in insertion order, flattened: <<k1, v1, k2, v2>>
Dict(flat) == [k |-> "dict", v |-> flat]
\* a JSON number, by its digits
Num(ds) == [k |-> "num", v |-> ds]

\* bool(x)
Truthy(x) ==
    CASE x.k = "null" -> FALSE
      [] x.k = "num"  -> IntOf(x.v) # 0
      [] OTHER        -> x.v # <<>>

\* a or b
Or(a, b) == IF Truthy(a) THEN a ELSE b

-----------------------------------------------------------------------------
(* LLMQueryParser._extract_time_range *)

\* date_pattern = (\d{4})[-/](\d{1,2})[-/](\d{1,2}) tried at position i:
\* <<TRUE, year, month, day, next position>> or <<FALSE>>
DateMatchAt(q, i) ==
    LET n      == Len(q)
        dig(j) == j <= n /\ IsDigit(q[j])
        sep(j) == j <= n /\ IsDateSep(q[j])
        mlen   == IF dig(i + 5) /\ dig(i + 6) /\ sep(i + 7) THEN 2
                  ELSE IF dig(i + 5) /\ sep(i + 6) THEN 1 ELSE 0
        ds     == i + 5 + mlen + 1
        dlen   == IF dig(ds) /\ dig(ds + 1) THEN 2 ELSE IF dig(ds) THEN 1 ELSE 0
    IN IF dig(i) /\ dig(i + 1) /\ dig(i + 2) /\ dig(i + 3) /\ sep(i + 4)
          /\ mlen > 0 /\ dlen > 0
       THEN <<TRUE, SubSeq(q, i, i + 3), SubSeq(q, i + 5, i + 4 + mlen),
              SubSeq(q, ds, ds + dlen - 1), ds + dlen>>
       ELSE <<FALSE>>

RECURSIVE FindDatesFrom(_, _)
FindDatesFrom(q, i) ==
    LET Go(m) == IF m[1] THEN <<<<m[2], m[3], m[4]>>>> \o FindDatesFrom(q, m[5])
                 ELSE FindDatesFrom(q, i + 1)
    IN IF i > Len(q) THEN <<>> ELSE Go(DateMatchAt(q, i))

\* re.findall(date_pattern, query): the (year, month, day) groups, left to right
FindDates(q) == FindDatesFrom(q, 1)

\* f"{year}-{month.zfill(2)}-{day.zfill(2)}"
FormatYmd(g) == g[1] \o <<"-">> \o ZFill(g[2], 2) \o <<"-">> \o ZFill(g[3], 2)

\* end of the digit run that starts at i
RECURSIVE RunEnd(_, _)
RunEnd(q, i) == IF i + 1 <= Len(q) /\ IsDigit(q[i + 1]) THEN RunEnd(q, i + 1) ELSE i

\* re.search(r'(\d+)<tian1>', query): <<TRUE, digits>> or <<FALSE>>
DaysMatch(q) ==
    LET Counted(e) == e + 1 <= Len(q) /\ q[e + 1] = "tian1"
        First(hits) == CHOOSE h \in hits : \A g \in hits : h <= g
        Group(i) == <<TRUE, SubSeq(q, i, RunEnd(q, i))>>
        Search(hits) == IF hits = {} THEN <<FALSE>> ELSE Group(First(hits))
    IN Search({i \in 1..Len(q) : IsDigit(q[i]) /\ Counted(RunEnd(q, i))})

Raise(e) == [ok |-> FALSE, exc |-> e]
Range(s, e) == [ok |-> TRUE, start |-> s, end |-> e]

\* keyword branches in which "this month" is tried before "this week"
KeywordRangeMonthFirst(q, now) ==
    LET Back(n, t) == IF DateMinusOk(now, n) THEN Range(Str(Strftime(now - n)), t)
                      ELSE Raise("OverflowError")
        Day(n) == IF DateMinusOk(now, n)
                  THEN Range(Str(Strftime(now - n)), Str(Strftime(now - n)))
                  ELSE Raise("OverflowError")
        Recent(dm, t) == IF dm[1] THEN Back(IntOf(dm[2]) - 1, t) ELSE Back(6, t)
        Keyword(ql, t) ==
            IF InStr(<<"jin1", "tian1">>, q) \/ InStr(<<"today">>, ql) THEN Range(t, t)
            ELSE IF InStr(<<"zuo2", "tian1">>, q) \/ InStr(<<"yesterday">>, ql)
            THEN Day(1)
            ELSE IF InStr(<<"ben3", "yue4">>, q) \/ InStr(<<"this month">>, ql)
            THEN Range(Str(Strftime(now - Ord2Ymd(now)[3] + 1)), t)
            ELSE IF InStr(<<"ben3", "zhou1">>, q) \/ InStr(<<"this week">>, ql)
            THEN Back(Weekday(now), t)
            ELSE IF InStr(<<"zui4", "jin4">>, q) \/ InStr(<<"last">>, ql)
            THEN Recent(DaysMatch(q), t)
            ELSE Range(None, None)
    IN Keyword(Lower(q), Str(Strftime(now)))

\* the keyword branches of _extract_time_range (lines 170-200)
KeywordRange(q, now) ==
    LET Back(n, t) == IF DateMinusOk(now, n) THEN Range(Str(Strftime(now - n)), t)
                      ELSE Raise("OverflowError")
        Day(n) == IF DateMinusOk(now, n)
                  THEN Range(Str(Strftime(now - n)), Str(Strftime(now - n)))
                  ELSE Raise("OverflowError")
        Recent(dm, t) == IF dm[1] THEN Back(IntOf(dm[2]) - 1, t) ELSE Back(6, t)
        Keyword(ql, t) ==
            IF InStr(<<"jin1", "tian1">>, q) \/ InStr(<<"today">>, ql) THEN Range(t, t)
            ELSE IF InStr(<<"zuo2", "tian1">>, q) \/ InStr(<<"yesterday">>, ql)
            THEN Day(1)
            ELSE IF InStr(<<"ben3", "zhou1">>, q) \/ InStr(<<"this week">>, ql)
            THEN Back(Weekday(now), t)
            ELSE IF InStr(<<"ben3", "yue4">>, q) \/ InStr(<<"this month">>, ql)
            THEN Range(Str(Strftime(now - Ord2Ymd(now)[3] + 1)), t)
            ELSE IF InStr(<<"zui4", "jin4">>, q) \/ InStr(<<"last">>, ql)
            THEN Recent(DaysMatch(q), t)
            ELSE Range(None, None)
    IN Keyword(Lower(q), Str(Strftime(now)))

\* a time range in which a keyword, when the text has one, beats the dates
ExtractTimeRangeKeywordFirst(q, now) ==
    LET Start(dates) == Str(FormatYmd(dates[1]))
        End(dates) == IF Len(dates) = 1 THEN Start(dates) ELSE Str(FormatYmd(dates[2]))
        Pick(dates, kw) == IF dates = <<>> \/ ~kw.ok \/ kw.start # None THEN kw
                           ELSE Range(Start(dates), End(dates))
    IN Pick(FindDates(q), KeywordRange(q, now))

\* a time range in which one explicit date sets the start only
ExtractTimeRangeOpenEnded(q, now) ==
    LET Start(dates) == Str(FormatYmd(dates[1]))
        End(dates) == IF Len(dates) = 1 THEN None ELSE Str(FormatYmd(dates[2]))
        Keywords(sd, kw) == IF kw.ok /\ kw.start = None THEN Range(sd, None) ELSE kw
        Explicit(sd, ed) == IF Truthy(sd) /\ Truthy(ed) THEN Range(sd, ed)
                            ELSE Keywords(sd, KeywordRange(q, now))
        Pick(dates) == IF dates = <<>> THEN KeywordRange(q, now)
                       ELSE Explicit(Start(dates), End(dates))
    IN Pick(FindDates(q))

\* _extract_time_range(query) at clock `now`
ExtractTimeRange(q, now) ==
    LET Start(dates) == Str(FormatYmd(dates[1]))
        End(dates) == IF Len(dates) = 1 THEN Start(dates) ELSE Str(FormatYmd(dates[2]))
        Explicit(sd, ed) == IF Truthy(sd) /\ Truthy(ed) THEN Range(sd, ed)
                            ELSE KeywordRange(q, now)
        Pick(dates) == IF dates = <<>> THEN KeywordRange(q, now)
                       ELSE Explicit(Start(dates), End(dates))
    IN Pick(FindDates(q))

-----------------------------------------------------------------------------
(* LLMQueryParser.__init__ *)

RECURSIVE ExtractKeywordsFrom(_, _)
ExtractKeywordsFrom(text, i) ==
    LET n      == Len(text)
        cjk(j) == j <= n /\ IsCJK(text[j])
        len    == IF ~(cjk(i) /\ cjk(i + 1)) THEN 0
                  ELSE IF ~cjk(i + 2) THEN 2
                  ELSE IF ~cjk(i + 3) THEN 3 ELSE 4
    IN IF i > n THEN <<>>
       ELSE IF len = 0 THEN ExtractKeywordsFrom(text, i + 1)
       ELSE <<SubSeq(text, i, i + len - 1)>> \o ExtractKeywordsFrom(text, i + len)

\* _extract_keywords(text): re.findall of runs of 2 to 4 CJK characters
ExtractKeywords(text) == ExtractKeywordsFrom(text, 1)

\* d[key] = name on an insertion-ordered dict held as a sequence of <<key, name>>
DictSet(d, key, name) ==
    IF \E i \in 1..Len(d) : d[i][1] = key
    THEN [i \in 1..Len(d) |-> IF d[i][1] = key THEN <<key, name>> ELSE d[i]]
    ELSE Append(d, <<key, name>>)

RECURSIVE DictSetAll(_, _, _)
DictSetAll(d, keys, name) ==
    IF keys = <<>> THEN d
    ELSE DictSetAll(DictSet(d, Lower(Head(keys)), name), Tail(keys), name)

\* the entries one metric adds to metric_map (lines 39-51)
AddMetric(d, metric) ==
    LET d1 == DictSet(d, Lower(metric.name), metric.name)
        d2 == IF metric.label # <<>> THEN DictSet(d1, Lower(metric.label), metric.name)
              ELSE d1
    IN IF metric.description # <<>>
       THEN DictSetAll(d2, ExtractKeywords(metric.description), metric.name)
       ELSE d2

RECURSIVE MetricMapFrom(_, _)
MetricMapFrom(d, metrics) ==
    IF metrics = <<>> THEN d ELSE MetricMapFrom(AddMetric(d, Head(metrics)), Tail(metrics))

\* self.metric_map
MetricMap(metrics) == MetricMapFrom(<<>>, metrics)

\* self.dimension_map, in insertion order
DimensionMap ==
    << <<<<"cheng2", "shi4">>, "city">>,
       <<<<"shou1", "fei4", "zhan4">>, "station_name">>,
       <<<<"che1", "xing2">>, "vehicle_type_name">>,
       <<<<"zhi1", "fu4", "fang1", "shi4b">>, "payment_method_name">>,
       <<<<"gao1", "su4", "gong1", "lu4">>, "highway_code">>,
       <<<<"city">>, "city">>,
       <<<<"station">>, "station_name">>,
       <<<<"vehicle">>, "vehicle_type_name">>,
       <<<<"payment">>, "payment_method_name">>,
       <<<<"highway">>, "highway_code">> >>

-----------------------------------------------------------------------------
(* LLMQueryParser._extract_metric, _extract_dimensions, _extract_filters *)

\* the generic domain keywords of line 122
DomainKeywords ==
    {<<"shou1", "ru4">>, <<"revenue">>, <<"jiao1", "yi4">>, <<"transaction">>,
     <<"zhi4", "liang4">>, <<"quality">>}

AnyDomainKeyword(q) == \E kw \in DomainKeywords : InStr(kw, q)

\* the label/name test of lines 123-128
IsDomainMetric(metric) ==
    \/ InStr(<<"shou1", "ru4">>, metric.label) \/ InStr(<<"revenue">>, metric.name)
    \/ InStr(<<"jiao1", "yi4">>, metric.label) \/ InStr(<<"transaction">>, metric.name)
    \/ InStr(<<"zhi4", "liang4">>, metric.label) \/ InStr(<<"quality">>, metric.name)

RECURSIVE FirstIndexFrom(_, _)
FirstIndexFrom(hits, i) ==
    IF i > Len(hits) THEN 0
    ELSE IF hits[i] THEN i
    ELSE FirstIndexFrom(hits, i + 1)

\* index of the first TRUE of hits (one flag per item a for loop visits), or 0
FirstIndex(hits) == FirstIndexFrom(hits, 1)

\* _extract_metric(query) on the lowercased query
ExtractMetric(metrics, q) ==
    LET Hit(e)   == InStr(e[1], q)
        Fuzzy(m) == AnyDomainKeyword(q) /\ IsDomainMetric(m)
        Default  == IF metrics # <<>> THEN Str(metrics[1].name) ELSE None
        Related(j) == IF j > 0 THEN Str(metrics[j].name) ELSE Default
        Exact(mm, i) ==
            IF i > 0 THEN Str(mm[i][2])
            ELSE Related(FirstIndex([j \in 1..Len(metrics) |-> Fuzzy(metrics[j])]))
        Lookup(mm) == Exact(mm, FirstIndex([i \in 1..Len(mm) |-> Hit(mm[i])]))
    IN Lookup(MetricMap(metrics))

RECURSIVE ExtractDimensionsFrom(_, _, _)
ExtractDimensionsFrom(q, i, dims) ==
    IF i > Len(DimensionMap) THEN dims
    ELSE LET key == DimensionMap[i][1]
             dim == DimensionMap[i][2]
         IN IF InStr(Lower(key), q) /\ ~InList(dim, dims)
            THEN ExtractDimensionsFrom(q, i + 1, Append(dims, dim))
            ELSE ExtractDimensionsFrom(q, i + 1, dims)

\* _extract_dimensions(query) on the lowercased query
ExtractDimensions(q) == List(ExtractDimensionsFrom(q, 1, <<>>))

\* the city names of line 207, in list order
Cities ==
    << <<"bei3", "jing1">>, <<"shang4", "hai3">>, <<"nan2", "jing1">>,
       <<"tian1", "jin1c">>, <<"de2", "zhou1b">>, <<"lang2", "fang2">> >>

RECURSIVE Join(_)
\* the atoms of a str as one dict item
Join(atoms) == IF atoms = <<>> THEN "" ELSE Head(atoms) \o Join(Tail(atoms))

\* _extract_filters(query)
ExtractFilters(q) ==
    LET Present(c) == InStr(c, q)
        i          == FirstIndex([j \in 1..Len(Cities) |-> Present(Cities[j])])
    IN IF i > 0 THEN Dict(<<"city", Join(Cities[i])>>) ELSE Dict(<<>>)

-----------------------------------------------------------------------------
(* LLMQueryParser.parse *)

Parsed(mn, dims, sd, ed, fl, q) ==
    [ok |-> TRUE, metric_name |-> mn, dimensions |-> dims, start_date |-> sd,
     end_date |-> ed, filters |-> fl, original_query |-> Str(q)]

\* LLMQueryParser(metrics, dimensions).parse(query) at clock `now`
RuleParse(metrics, q, now) ==
    LET Result(tr) ==
            IF tr.ok
            THEN Parsed(ExtractMetric(metrics, Lower(q)), ExtractDimensions(Lower(q)),
                        tr.start, tr.end, ExtractFilters(q), q)
            ELSE Raise(tr.exc)
    IN Result(ExtractTimeRange(q, now))

-----------------------------------------------------------------------------
(* LLMQueryParserWithAPI._validate_and_fix_dates *)

\* dict.get(key): a JSON object is a function from its keys to values
Get(obj, key) == IF key \in DOMAIN obj THEN obj[key] ELSE None

\* datetime.strptime(s, '%Y-%m-%d') on the atoms of a str:
\* <<TRUE, year, month, day>>, or <<FALSE>> for ValueError
Strptime(s) ==
    LET n       == Len(s)
        dig(j)  == j <= n /\ IsDigit(s[j])
        dash(j) == j <= n /\ s[j] = "-"
        mlen    == IF dig(6) /\ dig(7) /\ dash(8) THEN 2
                   ELSE IF dig(6) /\ dash(7) THEN 1 ELSE 0
        dlen(ds) == IF dig(ds) /\ dig(ds + 1) /\ n = ds + 1 THEN 2
                    ELSE IF dig(ds) /\ n = ds THEN 1 ELSE 0
        Date(y, m, d) ==
            IF y >= 1 /\ m >= 1 /\ m <= 12 /\ d >= 1 /\ d <= DaysInMonth(y, m)
            THEN <<TRUE, y, m, d>>
            ELSE <<FALSE>>
        Fields(ml, ds, dl) ==
            IF dig(1) /\ dig(2) /\ dig(3) /\ dig(4) /\ dash(5) /\ ml > 0 /\ dl > 0
            THEN Date(IntOf(SubSeq(s, 1, 4)), IntOf(SubSeq(s, 6, 5 + ml)),
                      IntOf(SubSeq(s, ds, ds + dl - 1)))
            ELSE <<FALSE>>
        Day(ml) == Fields(ml, 6 + ml + 1, dlen(6 + ml + 1))
    IN Day(mlen)

\* the repair of one date field (lines 543-557 and 560-574): the new value
\* of the field, or the exception that leaves the try block
FixDate(val, now) ==
    LET Kept == [ok |-> TRUE, val |-> val]
        Clamp(fixed) == [ok |-> TRUE,
                         val |-> Str(Strftime(IF fixed > now THEN now ELSE fixed))]
        Fix(year, p) ==
            IF ~p[1] THEN Kept
            ELSE IF p[2] = year THEN Kept
            ELSE IF p[4] > DaysInMonth(year, p[3]) THEN Kept
            ELSE Clamp(Ymd2Ord(year, p[3], p[4]))
    IN IF ~Truthy(val) THEN Kept
       ELSE IF val.k # "str" THEN Raise("TypeError")
       ELSE Fix(Ord2Ymd(now)[1], Strptime(val.v))

\* obj with obj[key] = val
SetKey(obj, key, val) == [x \in DOMAIN obj |-> IF x = key THEN val ELSE obj[x]]

\* _validate_and_fix_dates(parsed_result) at clock `now`
ValidateAndFixDates(obj, now) ==
    LET End(o1, e) ==
            IF "end_date" \notin DOMAIN o1 THEN [ok |-> TRUE, obj |-> o1]
            ELSE IF ~e.ok THEN Raise(e.exc)
            ELSE [ok |-> TRUE, obj |-> SetKey(o1, "end_date", e.val)]
        Then(o1) == End(o1, FixDate(Get(o1, "end_date"), now))
        Start(s) ==
            IF "start_date" \notin DOMAIN obj THEN Then(obj)
            ELSE IF ~s.ok THEN Raise(s.exc)
            ELSE Then(SetKey(obj, "start_date", s.val))
    IN Start(FixDate(Get(obj, "start_date"), now))

-----------------------------------------------------------------------------
(* The reply of the external service.  A reply text is a sequence of       *)
(* pieces: prose without braces, a lone brace, the text of a well-formed   *)
(* JSON object (held decoded), or a braced block that is not JSON.         *)

EmptyObj == [x \in {} |-> None]

Prose == [k |-> "prose", o |-> EmptyObj]
LBrace == [k |-> "lbrace", o |-> EmptyObj]
RBrace == [k |-> "rbrace", o |-> EmptyObj]
BadBlock == [k |-> "badblock", o |-> EmptyObj]
ObjText(o) == [k |-> "obj", o |-> o]

\* re.search(r'\{.*\}', text, re.DOTALL) then json.loads (lines 516-523,
\* 453-460): from the first opening brace to the last closing brace; the
\* match decodes when it is one object text, or the two lone braces "{}"
ExtractJson(text) ==
    LET Loads(first, last) ==
            IF first = last /\ text[first].k = "obj"
            THEN [ok |-> TRUE, obj |-> text[first].o]
            ELSE IF last = first + 1 /\ text[first].k = "lbrace" /\ text[last].k = "rbrace"
            THEN [ok |-> TRUE, obj |-> EmptyObj]
            ELSE Raise("JSONDecodeError")
        Close(first, closes) ==
            IF closes = {} THEN Raise("ValueError")
            ELSE Loads(first, CHOOSE i \in closes : \A j \in closes : j <= i)
        From(first) ==
            Close(first, {i \in 1..Len(text) :
                             text[i].k \in {"rbrace", "obj", "badblock"} /\ i >= first})
        Open(opens) ==
            IF opens = {} THEN Raise("ValueError")
            ELSE From(CHOOSE i \in opens : \A j \in opens : i <= j)
    IN Open({i \in 1..Len(text) : text[i].k \in {"lbrace", "obj", "badblock"}})

\* what a request to a service comes to: an exception before a reply text
\* is in hand (import, transport, timeout, HTTP status, reply shape), or
\* the reply text
Failed(e) == [k |-> "error", exc |-> e, text |-> <<>>]
Replied(text) == [k |-> "reply", exc |-> "", text |-> text]

\* a service layer that answers a failed request with an object of its own
ParseWithServiceSwallowing(outcome, now) ==
    LET Decoded(j) == IF j.ok THEN ValidateAndFixDates(j.obj, now)
                      ELSE [ok |-> TRUE, obj |-> [metric_name |-> Str(<<"unknown">>)]]
    IN IF outcome.k = "error"
       THEN [ok |-> TRUE, obj |-> [metric_name |-> Str(<<"unknown">>)]]
       ELSE Decoded(ExtractJson(outcome.text))

\* _parse_with_deepseek / _parse_with_openai once the service has answered
\* `outcome`: the repaired object, or the exception re-raised
ParseWithService(outcome, now) ==
    LET Decoded(j) == IF j.ok THEN ValidateAndFixDates(j.obj, now) ELSE Raise(j.exc)
    IN IF outcome.k = "error" THEN Raise(outcome.exc)
       ELSE Decoded(ExtractJson(outcome.text))

-----------------------------------------------------------------------------
(* LLMQueryParserWithAPI.parse *)

\* self.use_llm (line 246)
UseLlm(cfg) == cfg.api_key # None

\* the service parse() asks first (lines 275-283)
FirstService(cfg) ==
    IF Lower(cfg.provider) \in {<<"deepseek">>, <<"local">>, <<"lmstudio">>}
    THEN "deepseek"
    ELSE IF Lower(cfg.provider) = <<"openai">> \/ MatchAt(<<"gpt">>, cfg.model, 1)
    THEN "openai"
    ELSE "deepseek"

\* the inner try/except of lines 282-285: a failed _parse_with_deepseek is
\* followed by _parse_with_openai
HasFallback(cfg) ==
    /\ Lower(cfg.provider) \notin {<<"deepseek">>, <<"local">>, <<"lmstudio">>}
    /\ ~(Lower(cfg.provider) = <<"openai">> \/ MatchAt(<<"gpt">>, cfg.model, 1))

\* what parse() returns once llm_result is in hand (lines 289-319): the
\* merged result, or the rule-based result when llm_result is empty
Merge(obj, metrics, q, now) ==
    LET Over(rule) ==
            IF obj = EmptyObj THEN rule
            ELSE IF ~rule.ok THEN rule
            ELSE Parsed(Or(Get(obj, "metric_name"), rule.metric_name),
                        Or(Get(obj, "dimensions"), rule.dimensions),
                        rule.start_date, rule.end_date,
                        Or(Get(obj, "filters"), rule.filters), q)
    IN Over(RuleParse(metrics, q, now))

-----------------------------------------------------------------------------
(* main.py: get_measure_info and generate_metric_sql.  A dict of the dbt   *)
(* configuration is a record holding the keys it has; the SQL text is a    *)
(* sequence of atoms.                                                      *)

\* str.upper() of an aggregation name
UpperAtom(a) ==
    CASE a = "sum"     -> "SUM"
      [] a = "average" -> "AVERAGE"
      [] a = "count"   -> "COUNT"
      [] a = "max"     -> "MAX"
      [] a = "min"     -> "MIN"
      [] OTHER         -> a

\* str(x) inside an f-string
Fmt(x) == IF x.k = "null" THEN <<"None">> ELSE x.v

\* sep.join(items), each item a sequence of atoms
RECURSIVE JoinWith(_, _)
JoinWith(sep, items) ==
    IF items = <<>> THEN <<>>
    ELSE IF Len(items) = 1 THEN items[1]
    ELSE items[1] \o <<sep>> \o JoinWith(sep, Tail(items))

\* a lookup that takes the first measure for a name it does not find
GetMeasureInfoDefaulting(name, sm) ==
    LET measures == IF "measures" \in DOMAIN sm THEN sm.measures ELSE <<>>
        Named(m) == m.name = name
        Found(i) == IF i > 0 \/ measures = <<>> THEN i ELSE 1
    IN Found(FirstIndex([j \in 1..Len(measures) |-> Named(measures[j])]))

\* get_measure_info(measure_name, semantic_model): the measure's position
\* in semantic_model['measures'], 0 for None
GetMeasureInfo(name, sm) ==
    LET measures == IF "measures" \in DOMAIN sm THEN sm.measures ELSE <<>>
        Named(m) == m.name = name
    IN FirstIndex([j \in 1..Len(measures) |-> Named(measures[j])])

\* a table name that carries the day of the call
TableNameDated(sm) == <<"dws_toll_revenue_">> \o Strftime(today)

\* the table name cut out of semantic_model['model'] (lines 135-140)
TableName(sm) ==
    LET ref   == IF "model" \in DOMAIN sm THEN sm.model ELSE <<"dws_toll_revenue_daily">>
        IsOpen(a)  == a = "ref('"
        IsClose(a) == a = "')"
        o     == FirstIndex([j \in 1..Len(ref) |-> IsOpen(ref[j])])
        rest  == SubSeq(ref, o + 1, Len(ref))
        c     == FirstIndex([j \in 1..Len(rest) |-> IsClose(rest[j])])
    IN IF o > 0 THEN (IF c > 0 THEN SubSeq(rest, 1, c - 1) ELSE rest)
       ELSE SelectSeq(ref, LAMBDA a : ~IsOpen(a) /\ ~IsClose(a))

\* a projection that takes every requested dimension
ValidDimensionsUnchecked(sm, dimensions) ==
    IF Truthy(dimensions) THEN dimensions.v ELSE <<>>

\* valid_dimensions (lines 149-155): the requested dimensions the semantic
\* model knows, in request order
ValidDimensions(sm, dimensions) ==
    LET known == IF "dimensions" \in DOMAIN sm THEN sm.dimensions ELSE <<>>
    IN IF Truthy(dimensions)
       THEN SelectSeq(dimensions.v, LAMBDA d : InList(d, known))
       ELSE <<>>

\* the aggregate of a simple metric's measure (lines 166-176)
SimpleAgg(measure) ==
    LET expr == Fmt(IF "expr" \in DOMAIN measure THEN measure.expr ELSE None)
        agg  == IF "agg" \in DOMAIN measure THEN measure.agg ELSE "sum"
    IN IF agg = "sum" THEN <<"SUM(">> \o expr \o <<")">>
       ELSE IF agg = "average" THEN <<"AVG(">> \o expr \o <<")">>
       ELSE IF agg = "count" THEN <<"COUNT(">> \o expr \o <<")">>
       ELSE <<UpperAtom(agg) \o "(">> \o expr \o <<")">>

\* the aggregate of a ratio metric's operand (lines 187-200)
RatioAgg(measure) ==
    LET expr == Fmt(IF "expr" \in DOMAIN measure THEN measure.expr ELSE None)
        agg  == IF "agg" \in DOMAIN measure THEN measure.agg ELSE "sum"
    IN IF agg = "sum" THEN <<"SUM(">> \o expr \o <<")">>
       ELSE <<UpperAtom(agg) \o "(">> \o expr \o <<")">>

\* a ratio metric as the bare fraction
RatioExprBare(numerator, denominator) ==
    RatioAgg(numerator) \o <<" / ">> \o RatioAgg(denominator)

\* the expression of a ratio metric (line 202)
RatioExpr(numerator, denominator) ==
    RatioAgg(numerator) \o <<" * 100.0 / ">> \o RatioAgg(denominator)

SqlError(msg) == [ok |-> FALSE, exc |-> "ValueError", msg |-> msg]

\* the metric expression appended to select_fields (lines 158-205), or the
\* ValueError raised
MetricExpr(metric, sm) ==
    LET type   == IF "type" \in DOMAIN metric THEN metric.type ELSE "None"
        params == IF "type_params" \in DOMAIN metric THEN metric.type_params
                  ELSE EmptyObj
        P(key) == IF key \in DOMAIN params THEN params[key] ELSE "None"
        m      == GetMeasureInfo(P("measure"), sm)
        num    == GetMeasureInfo(P("numerator"), sm)
        den    == GetMeasureInfo(P("denominator"), sm)
    IN IF type = "simple"
       THEN IF m = 0 THEN SqlError("measure not found")
            ELSE [ok |-> TRUE,
                  expr |-> SimpleAgg(sm.measures[m]) \o <<" as metric_value">>]
       ELSE IF type = "ratio"
       THEN IF num = 0 \/ den = 0 THEN SqlError("ratio needs numerator and denominator")
            ELSE [ok |-> TRUE,
                  expr |-> RatioExpr(sm.measures[num], sm.measures[den])
                             \o <<" as metric_value">>]
       ELSE SqlError("unsupported metric type")

\* a filter condition added whatever its key
FilterClauseUnchecked(item, valid) ==
    IF item.val.k = "list"
    THEN <<" AND ", item.key, " IN (">>
           \o JoinWith(", ", [i \in 1..Len(item.val.v) |-> <<"'", item.val.v[i], "'">>])
           \o <<")", "\n">>
    ELSE <<" AND ", item.key, " = '">> \o Fmt(item.val) \o <<"'", "\n">>

\* the condition one filter item adds to the WHERE clause (lines 220-226)
FilterClause(item, valid) ==
    IF InList(item.key, valid)
    THEN IF item.val.k = "list"
         THEN <<" AND ", item.key, " IN (">>
                \o JoinWith(", ", [i \in 1..Len(item.val.v) |-> <<"'", item.val.v[i], "'">>])
                \o <<")", "\n">>
         ELSE <<" AND ", item.key, " = '">> \o Fmt(item.val) \o <<"'", "\n">>
    ELSE <<>>

\* the filter conditions, in the dict's order (lines 219-226)
FilterClauses(filters, valid) ==
    IF filters = <<>> THEN <<>>
    ELSE Cat([i \in 1..Len(filters) |-> FilterClause(filters[i], valid)])

\* a compiler that groups by the whole projection, the metric included
GenerateMetricSqlGroupingAll(metric, sm, dimensions, start_date, end_date, filters) ==
    LET valid  == ValidDimensions(sm, dimensions)
        me     == MetricExpr(metric, sm)
        fields == <<<<"transaction_date">>>> \o [i \in 1..Len(valid) |-> <<valid[i]>>]
        select == fields \o <<me.expr>>
    IN IF ~me.ok THEN me
       ELSE [ok |-> TRUE,
             sql |-> <<"SELECT ">> \o JoinWith(", ", select) \o <<"\n">>
                     \o <<"FROM ", "main_dws.">> \o TableName(sm) \o <<"\n">>
                     \o <<"WHERE 1=1", "\n">>
                     \o (IF Truthy(start_date)
                          THEN <<" AND ", "transaction_date", " >= '">> \o start_date.v
                                 \o <<"'", "\n">>
                          ELSE <<>>)
                     \o (IF Truthy(end_date)
                          THEN <<" AND ", "transaction_date", " <= '">> \o end_date.v
                                 \o <<"'", "\n">>
                          ELSE <<>>)
                     \o FilterClauses(filters, valid)
                     \o <<" GROUP BY ">> \o JoinWith(", ", select) \o <<"\n">>
                     \o <<" ORDER BY ", "transaction_date">>]

\* generate_metric_sql(metric, semantic_model, dimensions, start_date,
\* end_date, filters): the SQL text or the ValueError raised
GenerateMetricSql(metric, sm, dimensions, start_date, end_date, filters) ==
    LET valid  == ValidDimensions(sm, dimensions)
        me     == MetricExpr(metric, sm)
        fields == <<<<"transaction_date">>>> \o [i \in 1..Len(valid) |-> <<valid[i]>>]
        select == fields \o <<me.expr>>
    IN IF ~me.ok THEN me
       ELSE [ok |-> TRUE,
             sql |-> <<"SELECT ">> \o JoinWith(", ", select) \o <<"\n">>
                     \o <<"FROM ", "main_dws.">> \o TableName(sm) \o <<"\n">>
                     \o <<"WHERE 1=1", "\n">>
                     \o (IF Truthy(start_date)
                          THEN <<" AND ", "transaction_date", " >= '">> \o start_date.v
                                 \o <<"'", "\n">>
                          ELSE <<>>)
                     \o (IF Truthy(end_date)
                          THEN <<" AND ", "transaction_date", " <= '">> \o end_date.v
                                 \o <<"'", "\n">>
                          ELSE <<>>)
                     \o FilterClauses(filters, valid)
                     \o <<" GROUP BY ">> \o JoinWith(", ", fields) \o <<"\n">>
                     \o <<" ORDER BY ", "transaction_date">>]

-----------------------------------------------------------------------------
(* metricflow_client.py: MetricFlowClient.  The client is a record of its  *)
(* attributes and of api_available, the module constant                    *)
(* METRICFLOW_API_AVAILABLE it was made under; an engine is named by the   *)
(* semantic manifest it was built from (api_available FALSE is the module  *)
(* loaded through its ImportError branch, lines 22-25, which takes an      *)
(* interpreter that does not evaluate the annotation of _init_mf_engine at *)
(* definition time).  What the world outside answers during one call is    *)
(* the record                                                              *)
(* `env`: api_available (METRICFLOW_API_AVAILABLE), init (what building an *)
(* engine meets: "no_manifest", "load_error" or the manifest loaded),      *)
(* explain (the engine's explain: "sql" or "error"), listing (the engine's *)
(* list_metrics: "metrics" or "error") and cli (what running `mf` gives).  *)
(* Each method returns [client, ret, calls]: the client after the call,    *)
(* the value returned and the collaborators reached, in order.             *)

NoEngine == "None"
NoClient ==
    [made |-> FALSE, api_available |-> FALSE, use_api |-> FALSE, mf_engine |-> NoEngine]

\* MetricFlowClient(project_dir, profiles_dir)
NewMetricFlowClient(api_available) ==
    [made |-> TRUE, api_available |-> api_available, use_api |-> api_available,
     mf_engine |-> NoEngine]

\* an engine that is built anew on every call
InitMfEngineUncached(client, env) ==
    IF ~client.use_api
    THEN [client |-> client, engine |-> NoEngine, calls |-> <<>>]
    ELSE IF env.init \in {"no_manifest", "load_error"}
    THEN [client |-> [client EXCEPT !.use_api = FALSE], engine |-> NoEngine,
          calls |-> <<"api_init">>]
    ELSE [client |-> [client EXCEPT !.mf_engine = env.init], engine |-> env.init,
          calls |-> <<"api_init">>]

\* _init_mf_engine()
InitMfEngine(client, env) ==
    IF ~client.use_api
    THEN [client |-> client, engine |-> NoEngine, calls |-> <<>>]
    ELSE IF client.mf_engine # NoEngine
    THEN [client |-> client, engine |-> client.mf_engine, calls |-> <<>>]
    ELSE IF env.init \in {"no_manifest", "load_error"}
    THEN [client |-> [client EXCEPT !.use_api = FALSE], engine |-> NoEngine,
          calls |-> <<"api_init">>]
    ELSE [client |-> [client EXCEPT !.mf_engine = env.init], engine |-> env.init,
          calls |-> <<"api_init">>]

\* the SQL an engine explains, and the SQL the command-line tool prints
EngineSql(engine) == <<<<"SELECT ", "metric">>, <<"FROM ", engine>>>>
CliSql == <<<<"SELECT ", "metric">>, <<"FROM ", "cli_table">>>>

\* '\n'.join(lines).strip(), the lines being free of blanks at their ends
RECURSIVE StripLines(_)
StripLines(lines) ==
    IF lines = <<>> THEN <<>>
    ELSE IF Head(lines) = <<>> THEN StripLines(Tail(lines))
    ELSE IF lines[Len(lines)] = <<>> THEN StripLines(SubSeq(lines, 1, Len(lines) - 1))
    ELSE lines

JoinLines(lines) == JoinWith("\n", lines)

\* lines 342-358: the lines kept from line j on, an empty line ending them
\* once more than three are kept, a comment line holding END ending them too
RECURSIVE SqlLinesFrom(_, _, _)
SqlLinesFrom(output, j, kept) ==
    LET line == output[j]
    IN IF j > Len(output) THEN kept
       ELSE IF line = <<>>
       THEN (IF Len(kept) > 3 THEN kept ELSE SqlLinesFrom(output, j + 1, kept))
       ELSE IF line[1] = "--" /\ InList("END", line) THEN Append(kept, line)
       ELSE SqlLinesFrom(output, j + 1, Append(kept, line))

\* _extract_sql_from_explain(output), the output a sequence of lines and
\* the atom <fence> three backquotes: the
\* body of the first fenced block, else the lines from the first one
\* holding SELECT with the comment lines blanked, else the whole output
ExtractSqlFromExplain(output) ==
    LET open   == FirstIndex([j \in 1..Len(output) |-> output[j] \in {<<"<fence>sql">>, <<"<fence>">>}])
        close  == FirstIndexFrom([j \in 1..Len(output) |-> output[j] = <<"<fence>">>], open + 2)
        select == FirstIndex([j \in 1..Len(output) |-> InList("SELECT ", output[j])])
        Uncommented(lines) ==
            [j \in 1..Len(lines) |-> IF lines[j][1] = "--" THEN <<>> ELSE lines[j]]
    IN IF open > 0 /\ close > 0
       THEN JoinLines(StripLines(SubSeq(output, open + 1, close - 1)))
       ELSE IF select > 0
       THEN JoinLines(StripLines(Uncommented(SqlLinesFrom(output, select, <<>>))))
       ELSE JoinLines(StripLines(output))

\* the dict generate_sql returns
SqlResult(sql, raw) == [sql |-> Str(sql), raw_output |-> Str(raw), success |-> TRUE]
SqlFailure(error) == [sql |-> None, error |-> error, success |-> FALSE]

\* lines 245-320: the command-line tool
GenerateSqlByCli(cli) ==
    CASE cli.k = "exit0"   -> SqlResult(ExtractSqlFromExplain(cli.out), JoinLines(cli.out))
      [] cli.k = "exit1"   -> SqlFailure(JoinLines(cli.out))
      [] cli.k = "timeout" -> SqlFailure(<<"cha2xun2 chao1shi2">>)
      [] OTHER             -> SqlFailure(<<cli.k>>)

\* generate_sql(metrics, group_by, where, start_time, end_time, limit)
GenerateSql(client, env) ==
    LET Cli(i, before) == [client |-> i.client, ret |-> GenerateSqlByCli(env.cli),
                           calls |-> before \o <<"cli">>]
        Api(i) == IF env.explain = "sql"
                  THEN [client |-> i.client,
                        ret |-> SqlResult(JoinLines(EngineSql(i.engine)),
                                          JoinLines(EngineSql(i.engine))),
                        calls |-> i.calls \o <<"api">>]
                  ELSE Cli(i, i.calls \o <<"api">>)
        With(i) == IF i.engine # NoEngine THEN Api(i) ELSE Cli(i, i.calls)
    IN With(InitMfEngine(client, env))

\* query_metrics(metrics, group_by, where, start_time, end_time)
QueryMetrics(client, env, q) ==
    LET Of(g) ==
            IF g.ret.success
            THEN [client |-> g.client, calls |-> g.calls,
                  ret |-> [sql |-> g.ret.sql, metrics |-> <<q.metric_name>>]]
            ELSE g
    IN Of(GenerateSql(client, env))

\* list_metrics(): the names listed, by the engine or parsed from the
\* tool's output
ListMetrics(client, env) ==
    LET Cli(i, before) ==
            [client |-> i.client, calls |-> before \o <<"cli">>,
             ret |-> IF env.cli.k = "exit0" THEN List(<<"cli_metric">>) ELSE List(<<>>)]
        Api(i) == IF env.listing = "metrics"
                  THEN [client |-> i.client, ret |-> List(<<i.engine>>),
                        calls |-> i.calls \o <<"api">>]
                  ELSE Cli(i, i.calls \o <<"api">>)
        With(i) == IF i.engine # NoEngine THEN Api(i) ELSE Cli(i, i.calls)
    IN With(InitMfEngine(client, env))

-----------------------------------------------------------------------------
(* main.py: the query endpoints.  A structured query is a record of the    *)
(* fields of MetricQuery; `cfg` holds what load_metrics_config and         *)
(* load_semantic_model read ([] and None when the file is missing); `db`   *)
(* is what executing SQL on the database gives.                            *)

\* raise HTTPException(status_code, detail)
Http(status, detail) ==
    [ok |-> FALSE, exc |-> "HTTPException", status_code |-> status, detail |-> detail]

StatusText(status) ==
    CASE status = 400 -> "400" [] status = 404 -> "404" [] OTHER -> "500"

\* str(e)
StrOfException(e) ==
    IF e.exc = "HTTPException" THEN <<StatusText(e.status_code), ": ">> \o e.detail
    ELSE <<e.exc>>

\* conn.execute(sql).fetchall() and the dicts made of its rows
Execute(outcome) ==
    IF outcome = "rows" THEN [ok |-> TRUE, data |-> <<"row">>] ELSE Raise("duckdb.Error")

Response(q, rows, sql, by) ==
    [ok |-> TRUE, metric_name |-> q.metric_name, data |-> rows.data, query_sql |-> sql,
     generated_by |-> by]

\* the first metric of the registry with the query's name (lines 883-887)
FindMetric(metrics_config, name) ==
    FirstIndex([j \in 1..Len(metrics_config) |-> metrics_config[j].name = name])

\* _query_metric_fallback(query, conn): the response, or the HTTPException
\* raised.  The whole body is inside try ... except Exception (line 912).
QueryMetricFallback(q, cfg, db) ==
    LET Ran(sql, rows) ==
            IF rows.ok THEN Response(q, rows, sql, "Config-based") ELSE rows
        Compiled(c) == IF c.ok THEN Ran(c.sql, Execute(db)) ELSE c
        Found(i) ==
            IF i = 0
            THEN Http(404, <<"zhi3biao1 ">> \o q.metric_name \o <<" bu4 cun2zai4">>)
            ELSE Compiled(GenerateMetricSql(cfg.metrics[i], cfg.semantic_model, q.dimensions,
                                            q.start_date, q.end_date, q.filters))
        Body == IF cfg.metrics = <<>> THEN Http(500, <<"wu2fa3 jia1zai3 zhi3biao1 pei4zhi4">>)
                ELSE IF cfg.semantic_model = EmptyObj
                THEN Http(500, <<"wu2fa3 jia1zai3 yu3yi4 mo2xing2">>)
                ELSE Found(FindMetric(cfg.metrics, q.metric_name))
        Caught(r) == IF r.ok THEN r
                     ELSE Http(500, <<"cha2xun2 shi1bai4: ">> \o StrOfException(r))
    IN Caught(Body)

\* get_metricflow_client(): the process-wide client, made on first use
GetMetricflowClient(client, env) ==
    IF client.made THEN client ELSE NewMetricFlowClient(env.api_available)

\* a query_metric that answers the engine's failure with a failure
QueryMetricWithoutFallback(client, q, env, cfg, db) ==
    LET Failure(m) == [client |-> m.client, calls |-> m.calls, mf_result |-> m.ret,
                       ret |-> Http(500, <<"MetricFlow ", "shi1bai4">>)]
        Ran(m, rows) ==
            IF rows.ok
            THEN [client |-> m.client, calls |-> m.calls, mf_result |-> m.ret,
                  ret |-> Response(q, rows, m.ret.sql.v, "MetricFlow")]
            ELSE Failure(m)
        Answered(m) ==
            IF ("success" \in DOMAIN m.ret /\ ~m.ret.success) \/ ~Truthy(m.ret.sql)
            THEN Failure(m)
            ELSE Ran(m, Execute(db.metricflow))
    IN Answered(QueryMetrics(GetMetricflowClient(client, env), env, q))

\* query_metric(query): the response or the HTTPException raised, with the
\* client as the call leaves it and the answer query_metrics gave
QueryMetric(client, q, env, cfg, db) ==
    LET Fallback(m) == [client |-> m.client, calls |-> m.calls, mf_result |-> m.ret,
                        ret |-> QueryMetricFallback(q, cfg, db.config)]
        Ran(m, rows) ==
            IF rows.ok
            THEN [client |-> m.client, calls |-> m.calls, mf_result |-> m.ret,
                  ret |-> Response(q, rows, m.ret.sql.v, "MetricFlow")]
            ELSE Fallback(m)
        Answered(m) ==
            IF ("success" \in DOMAIN m.ret /\ ~m.ret.success) \/ ~Truthy(m.ret.sql)
            THEN Fallback(m)
            ELSE Ran(m, Execute(db.metricflow))
    IN Answered(QueryMetrics(GetMetricflowClient(client, env), env, q))

\* the parser configuration query_metric_natural derives from the request
\* and the process environment (lines 950-968)
NaturalConfig(nl, osenv) ==
    LET provider == IF nl.provider # <<>> THEN nl.provider ELSE Lower(osenv.llm_provider)
    IN IF provider = <<"openai">>
       THEN [api_key |-> osenv.api_key, provider |-> <<"openai">>,
             model |-> IF nl.model # <<>> THEN nl.model ELSE <<"gpt", "-3.5-turbo">>]
       ELSE [api_key |-> Or(osenv.api_key, Str(<<"not-required">>)), provider |-> <<"local">>,
             model |-> IF nl.model # <<>> THEN nl.model ELSE <<"local-model">>]

\* LLMQueryParserWithAPI(...).parse(query) for a configuration that asks one
\* service, `outcome` being what that service answers
ParseAsking(cfg, metrics, q, now, outcome) ==
    LET Over(llm) == IF llm.ok THEN Merge(llm.obj, metrics, q, now)
                     ELSE RuleParse(metrics, q, now)
    IN IF UseLlm(cfg) THEN Over(ParseWithService(outcome, now))
       ELSE RuleParse(metrics, q, now)

\* the filters of a parsed query as the items of a dict
FilterItems(d) ==
    IF d.k # "dict" THEN <<>>
    ELSE [i \in 1..(Len(d.v) \div 2) |-> [key |-> d.v[2 * i - 1], val |-> Str(<<d.v[2 * i]>>)]]

\* MetricQuery(metric_name=..., dimensions=..., ...) (lines 998-1004)
MetricQueryOf(parsed) ==
    IF parsed.metric_name.k # "str" \/ parsed.dimensions.k \notin {"null", "list"}
       \/ parsed.filters.k \notin {"null", "dict"}
    THEN Raise("ValidationError")
    ELSE [ok |-> TRUE, metric_name |-> parsed.metric_name.v, dimensions |-> parsed.dimensions,
          start_date |-> parsed.start_date, end_date |-> parsed.end_date,
          filters |-> FilterItems(parsed.filters)]

\* query_metric_natural(nl_query): the response or the HTTPException raised
QueryMetricNatural(nl, osenv, cfg, db, outcome, now) ==
    LET metrics_for_parser ==
            [j \in 1..Len(cfg.metrics) |->
                [name |-> cfg.metrics[j].name, label |-> cfg.metrics[j].label,
                 description |-> cfg.metrics[j].description]]
        Caught(r) == IF r.ok \/ r.exc = "HTTPException" THEN r
                     ELSE Http(500, <<"cha2xun2 shi1bai4: ">> \o StrOfException(r))
        Answer(parsed, r) ==
            IF r.ok THEN [ok |-> TRUE, metric_name |-> r.metric_name, data |-> r.data,
                          query_sql |-> r.query_sql, generated_by |-> r.generated_by,
                          parsed_query |-> parsed, original_query |-> nl.query]
            ELSE r
        Asked(parsed, mq) ==
            IF mq.ok THEN Answer(parsed, QueryMetricFallback(mq, cfg, db)) ELSE mq
        Resolved(parsed) ==
            IF ~parsed.ok THEN parsed
            ELSE IF ~Truthy(parsed.metric_name)
            THEN Http(400, <<"wu2fa3 shi2bie2 zhi3biao1">>)
            ELSE Asked(parsed, MetricQueryOf(parsed))
        Body == IF cfg.metrics = <<>> THEN Http(500, <<"wu2fa3 jia1zai3 zhi3biao1 pei4zhi4">>)
                ELSE IF nl.use_llm
                THEN Resolved(ParseAsking(NaturalConfig(nl, osenv), metrics_for_parser,
                                         nl.query, now, outcome))
                ELSE Resolved(RuleParse(metrics_for_parser, nl.query, now))
    IN Caught(Body)

-----------------------------------------------------------------------------
(* Bounds *)

\* phrases in a query text
MaxSegs == 2
\* days the clock advances
MaxTicks == 1
\* pieces in a reply text
MaxPieces == 2
\* requested group-by dimensions
MaxDims == 2
\* items in a filter map
MaxFilters == 2

\* all sequences of at most n items of S
SeqsUpTo(S, n) == UNION {[1..k -> S] : k \in 0..n}

-----------------------------------------------------------------------------
(* Inputs: query texts *)

Date1 == <<"2", "0", "2", "5", "-", "0", "1", "-", "0", "1">>
Date2 == <<"2", "0", "2", "5", "/", "1", "/", "7">>
Date3 == <<"2", "0", "2", "4", "-", "1", "2", "-", "3", "1">>
\* digits in the shape of a date that is no day of the calendar
Date4 == <<"2", "0", "2", "5", "-", "1", "3", "-", "4", "5">>

\* the phrases a query text is made of
Segments ==
    { Date1,
      Date2 \o <<" ">> \o Date3,
      Date4,
      <<"Today">>,
      <<"zuo2", "tian1">>,
      <<"ben3", "zhou1">>,
      <<"this month">>,
      <<"zui4", "jin4">>,
      <<"last">>,
      <<"7", "tian1">>,
      <<"0", "tian1">>,
      <<" ", "3", " days">>,
      <<"9", "9", "9", "9", "9", "9", "9", "tian1">>,
      <<"ri4", "shou1", "ru4">>,
      <<"ri4", "shou1", "fei4", "shou1", "ru4">>,
      <<"jiao1", "yi4">>,
      <<"cheng2", "shi4">>,
      <<"station">>,
      <<"bei3", "jing1">>,
      <<"cha2", "xun2">> }

Texts == {Cat(ss) : ss \in SeqsUpTo(Segments, MaxSegs)}

\* the query texts put to the LLM-assisted resolver
ApiTexts ==
    { <<>>,
      <<"cha2", "xun2", "zui4", "jin4", "7", "tian1", "de5", "ri4", "shou1", "ru4",
        "cheng2", "shi4">>,
      <<"bei3", "jing1">> \o Date1,
      <<"zui4", "jin4", "9", "9", "9", "9", "9", "9", "9", "tian1">> }

-----------------------------------------------------------------------------
(* Inputs: metric registries (the metrics of test_llm_complex.py) *)

Metric(name, label) == [name |-> name, label |-> label, description |-> label]

DailyRevenue ==
    Metric(<<"daily_", "revenue">>, <<"ri4", "shou1", "fei4", "shou1", "ru4">>)
DailyTransactions ==
    Metric(<<"daily_", "transaction", "s">>, <<"ri4", "jiao1", "yi4", "bi3", "shu4">>)
NormalTransactionRate ==
    Metric(<<"normal_", "transaction", "_rate">>,
           <<"zheng4", "chang2", "jiao1", "yi4", "lv4">>)
AvgTransactionAmount ==
    Metric(<<"avg_", "transaction", "_amount">>,
           <<"ping2", "jun1", "jiao1", "yi4", "jin1b", "e2">>)

Registries ==
    { <<DailyRevenue, DailyTransactions, NormalTransactionRate, AvgTransactionAmount>>,
      <<NormalTransactionRate, DailyRevenue>> }

\* the available_dimensions handed to a resolver with the registry: the
\* dimensions of test_llm_complex.py with its metrics, one dimension with
\* the short registry
DimensionsWith(metrics) ==
    IF Len(metrics) = 4
    THEN <<"city", "station_name", "vehicle_type_name", "payment_method_name">>
    ELSE <<"city">>

-----------------------------------------------------------------------------
(* Inputs: the clock *)

\* the day on which the library is first called: Wed 2025-12-31 (the next
\* day is in a new month and a new year, the Monday of the week is not)
ClockStarts == {Ymd2Ord(2025, 12, 31)}

-----------------------------------------------------------------------------
(* Inputs: resolver configurations and replies of the external services *)

Configs ==
    [api_key : {None, Str(<<"k">>)},
     provider : {<<"openai">>, <<"DeepSeek">>, <<"claude">>},
     model : {<<"gpt", "-4">>, <<"local-model">>}]

\* exceptions raised before a reply text is in hand: refused connection,
\* timeout, HTTP error status, a reply without choices, a missing library
ServiceErrors == {"ConnectionError", "Timeout", "HTTPError", "KeyError", "ImportError"}

\* reply values of a date field: another year, a leap day, a year's last
\* day, an unpadded date, no calendar date, no date, a number, null, empty
DateVals ==
    { Str(<<"2", "0", "2", "3", "-", "0", "3", "-", "0", "5">>),
      Str(<<"2", "0", "2", "4", "-", "0", "2", "-", "2", "9">>),
      Str(<<"2", "0", "2", "3", "-", "1", "2", "-", "3", "1">>),
      Str(<<"2", "0", "2", "5", "-", "3", "-", "5">>),
      Str(<<"2", "0", "2", "3", "-", "1", "3", "-", "0", "1">>),
      Str(<<"abc">>),
      Num(<<"2", "0", "2", "3", "0", "3", "0", "5">>),
      None,
      Str(<<>>) }

\* the object with the given keys left out where the value is Absent
Absent == [k |-> "absent", v |-> <<>>]
Obj(f) == [x \in {y \in DOMAIN f : f[y] # Absent} |-> f[x]]

\* objects handed to _validate_and_fix_dates
FixObjs ==
    {Obj([metric_name |-> Str(<<"daily_", "revenue">>), start_date |-> sd, end_date |-> ed]) :
        sd \in DateVals \cup {Absent}, ed \in DateVals \cup {Absent}}

\* objects a reply text holds: the metric, dimension, filter and time
\* keyword fields ...
ReplyBases ==
    { [metric_name |-> Str(<<"daily_", "transaction", "s">>), dimensions |-> List(<<"city">>),
       filters |-> Dict(<<"city", "shang4hai3">>), time_keyword |-> Str(<<"ben3", "yue4">>)],
      [metric_name |-> Str(<<>>), dimensions |-> List(<<>>), filters |-> Absent,
       time_keyword |-> None],
      [metric_name |-> Absent, dimensions |-> Absent, filters |-> Absent,
       time_keyword |-> Absent] }

\* ... and the date fields
ReplyDates ==
    [start_date : {Absent, Str(<<"2", "0", "2", "3", "-", "0", "3", "-", "0", "5">>),
                   Str(<<"abc">>), Num(<<"2", "0", "2", "3", "0", "3", "0", "5">>)},
     end_date : {Absent, Str(<<"2", "0", "2", "4", "-", "0", "2", "-", "2", "9">>),
                 Num(<<"2", "0", "2", "3", "0", "3", "0", "7">>)}]

ReplyObj(b, d) ==
    Obj([metric_name |-> b.metric_name, dimensions |-> b.dimensions, filters |-> b.filters,
         start_date |-> d.start_date, end_date |-> d.end_date,
         time_keyword |-> b.time_keyword])

ReplyObjs == {ReplyObj(b, d) : b \in ReplyBases, d \in ReplyDates}

Pieces ==
    { Prose, LBrace, RBrace, BadBlock,
      ObjText(Obj([metric_name |-> Str(<<"daily_", "transaction", "s">>),
                   dimensions |-> List(<<"station_name">>)])) }

ReplyTexts == {<<ObjText(o)>> : o \in ReplyObjs} \cup SeqsUpTo(Pieces, MaxPieces)

Outcomes == {Failed(e) : e \in ServiceErrors} \cup {Replied(t) : t \in ReplyTexts}

-----------------------------------------------------------------------------
(* Inputs: the compiler's metric definitions, semantic models and queries *)

Measures ==
    << [name |-> "toll_revenue", expr |-> Str(<<"toll_amount">>), agg |-> "sum"],
       [name |-> "transaction_count", expr |-> Str(<<"transaction_id">>), agg |-> "count"],
       [name |-> "avg_amount", expr |-> Str(<<"amount">>), agg |-> "average"],
       [name |-> "peak_amount", expr |-> Str(<<"amount">>), agg |-> "max"],
       [name |-> "normal_count", expr |-> Str(<<"is_normal">>)] >>

SemanticModels ==
    { [model |-> <<"ref('", "dws_toll_revenue_daily", "')">>, measures |-> Measures,
       dimensions |-> <<"city", "station_name">>],
      [measures |-> SubSeq(Measures, 1, 2), dimensions |-> <<"city">>] }

MetricDefs ==
    { [type |-> "simple", type_params |-> [measure |-> "toll_revenue"]],
      [type |-> "simple", type_params |-> [measure |-> "avg_amount"]],
      [type |-> "simple", type_params |-> [measure |-> "peak_amount"]],
      [type |-> "simple", type_params |-> [measure |-> "ghost_measure"]],
      [type |-> "simple", type_params |-> EmptyObj],
      [type |-> "simple"],
      [type |-> "ratio",
       type_params |-> [numerator |-> "normal_count", denominator |-> "transaction_count"]],
      [type |-> "ratio",
       type_params |-> [numerator |-> "avg_amount", denominator |-> "peak_amount"]],
      [type |-> "ratio",
       type_params |-> [numerator |-> "toll_revenue", denominator |-> "ghost_measure"]],
      [type |-> "ratio", type_params |-> [numerator |-> "toll_revenue"]],
      [type |-> "derived", type_params |-> [measure |-> "toll_revenue"]],
      [type_params |-> [measure |-> "toll_revenue"]] }

\* names a query may ask to group by or filter on
DimNames == {"city", "station_name", "ghost_dim"}

DimLists == {None} \cup {List(d) : d \in SeqsUpTo(DimNames, MaxDims)}

FilterKeys == {"city", "ghost_dim"}
FilterVals == {Str(<<"bj">>), List(<<"bj", "sh">>)}

\* filter maps: items in insertion order, keys distinct
FilterMaps ==
    {f \in SeqsUpTo([key : FilterKeys, val : FilterVals], MaxFilters) :
        \A i, j \in 1..Len(f) : i # j => f[i].key # f[j].key}

DateBounds ==
    { <<None, None>>,
      <<Str(Date1), None>>,
      <<Str(Date1), Str(<<"2", "0", "2", "5", "-", "0", "1", "-", "0", "7">>)>> }

-----------------------------------------------------------------------------
(* Inputs: the service's configuration files, queries and collaborators *)

\* models/metrics.yml: the registry, each metric with its definition
MetricsYml ==
    << DailyRevenue @@ [type |-> "simple", type_params |-> [measure |-> "toll_revenue"]],
       DailyTransactions @@ [type |-> "simple", type_params |-> [measure |-> "ghost_measure"]],
       NormalTransactionRate @@
           [type |-> "ratio",
            type_params |-> [numerator |-> "normal_count", denominator |-> "transaction_count"]] >>

\* models/dws/schema.yml: its first semantic model
SchemaYml ==
    [model |-> <<"ref('", "dws_toll_revenue_daily", "')">>, measures |-> Measures,
     dimensions |-> <<"city", "station_name">>]

\* what the two loaders return: a missing file gives [] and None
ServiceConfigs ==
    { [metrics |-> <<>>, semantic_model |-> SchemaYml],
      [metrics |-> MetricsYml, semantic_model |-> EmptyObj],
      [metrics |-> MetricsYml, semantic_model |-> SchemaYml] }

\* structured queries: a metric that compiles, one whose measure is missing
\* from the semantic model, one the registry does not hold
MetricQueries ==
    [metric_name : {DailyRevenue.name, DailyTransactions.name, <<"ghost_metric">>},
     dimensions : {None, List(<<"city">>)},
     start_date : {Str(Date1)}, end_date : {None},
     filters : {<<[key |-> "city", val |-> Str(<<"bj">>)]>>}]

\* what the `mf` tool prints with --explain
CliOutputs ==
    { <<<<"Explain:">>, <<"<fence>sql">>>> \o CliSql \o <<<<"<fence>">>>>,
      <<<<"Explain:">>, <<>>>> \o CliSql \o <<<<>>>>,
      <<>> }

\* what running the `mf` tool gives: an exit status with its output, a
\* timeout, a tool that is not installed
CliOutcomes ==
    {[k |-> "exit0", out |-> o] : o \in CliOutputs}
    \cup {[k |-> "exit1", out |-> <<<<"Error: ", "no such metric">>>>],
          [k |-> "timeout", out |-> <<>>]}

Manifests == {"manifest_v1", "manifest_v2"}

MfEnvs ==
    [api_available : BOOLEAN,
     init : {"no_manifest", "load_error"} \cup Manifests,
     explain : {"sql", "error"},
     listing : {"metrics"},
     cli : CliOutcomes]

ListEnvs ==
    [api_available : BOOLEAN,
     init : {"no_manifest"} \cup Manifests,
     explain : {"sql"},
     listing : {"metrics", "error"},
     cli : {[k |-> "exit0", out |-> <<>>], [k |-> "timeout", out |-> <<>>]}]

\* METRICFLOW_API_AVAILABLE is set once, when the module is imported: the
\* environments of a process whose client is made agree with it
EnvsOf(envs, client) ==
    {env \in envs : client.made => env.api_available = client.api_available}

\* the database's answer to the engine's SQL and to the compiler's
DbOutcomes ==
    { [metricflow |-> "rows", config |-> "rows"],
      [metricflow |-> "error", config |-> "rows"],
      [metricflow |-> "error", config |-> "error"] }

\* natural-language requests, and the service key and provider of the
\* process environment
NaturalQueries ==
    [query : { <<"cha2", "xun2", "zui4", "jin4", "7", "tian1", "de5", "ri4", "shou1", "ru4",
                 "cheng2", "shi4">>,
               <<"jiao1", "yi4">>,
               <<"station">>,
               <<"zui4", "jin4", "9", "9", "9", "9", "9", "9", "9", "tian1">> },
     use_llm : BOOLEAN,
     provider : {<<>>, <<"openai">>},
     model : {<<>>}]

OsEnvs == [api_key : {None, Str(<<"k">>)}, llm_provider : {<<"local">>}]

\* what the service asked by the natural-language endpoint answers
NaturalOutcomes ==
    { Failed("Timeout"),
      Replied(<<ObjText(Obj([metric_name |-> Str(<<"ghost_metric">>)]))>>),
      Replied(<<ObjText(Obj([metric_name |-> Str(DailyRevenue.name),
                             dimensions |-> List(<<"station_name">>),
                             filters |-> Dict(<<"city", "shang4hai3">>)]))>>) }

\* the credentials of the parsers that call the OpenAI service
ApiKeys == {Str(<<"k">>), Str(<<"k2">>)}

-----------------------------------------------------------------------------
(* The state machine: a clock and the calls made on the library, one at a  *)
(* time.  A call to LLMQueryParserWithAPI.parse stops at each request to   *)
(* an external service until the service answers.                          *)

NoArgs == [none |-> TRUE]
NoReply == [k |-> "none", exc |-> "", text |-> <<>>]
NoRet == [ok |-> FALSE, exc |-> "no call"]

Idle ==
    /\ pc = "idle" /\ op = "none" /\ args = NoArgs /\ reply = NoReply
    /\ requests = <<>> /\ ret = NoRet /\ ret2 = NoRet

Init ==
    /\ today \in ClockStarts /\ Idle
    /\ metricflow_client = NoClient /\ openai_api_key = None

\* the clock advances between calls
Tick ==
    /\ pc = "idle" \/ (pc = "done" /\ op = "compile")
    /\ \E d \in ClockStarts : d <= today /\ today + 1 <= d + MaxTicks
    /\ today' = today + 1
    /\ UNCHANGED <<pc, op, args, reply, requests, ret, ret2, metricflow_client, openai_api_key>>

\* the caller takes the result
Return ==
    /\ pc \in {"done", "again"}
    /\ pc' = "idle" /\ op' = "none" /\ args' = NoArgs /\ reply' = NoReply
    /\ requests' = <<>> /\ ret' = NoRet /\ ret2' = NoRet
    /\ UNCHANGED <<today, metricflow_client, openai_api_key>>

\* LLMQueryParser(metrics, dims).parse(query)
Parse ==
    /\ pc = "idle"
    /\ \E metrics \in Registries, q \in Texts :
          /\ args' = [metrics |-> metrics, available |-> DimensionsWith(metrics),
                      query |-> q]
          /\ ret' = RuleParse(metrics, q, today)
    /\ pc' = "done" /\ op' = "parse"
    /\ UNCHANGED <<today, reply, requests, ret2, metricflow_client, openai_api_key>>

\* LLMQueryParserWithAPI._validate_and_fix_dates(parsed_result)
FixDates ==
    /\ pc = "idle"
    /\ \E obj \in FixObjs :
          /\ args' = [obj |-> obj]
          /\ ret' = ValidateAndFixDates(obj, today)
    /\ pc' = "done" /\ op' = "fix_dates"
    /\ UNCHANGED <<today, reply, requests, ret2, metricflow_client, openai_api_key>>

\* LLMQueryParserWithAPI(metrics, dims, api_key, model, provider).parse(query)
\* up to its first request (lines 264-279)
ApiParse ==
    /\ pc = "idle"
    /\ \E cfg \in Configs, metrics \in Registries, q \in ApiTexts :
          /\ args' = [cfg |-> cfg, metrics |-> metrics,
                      available |-> DimensionsWith(metrics), query |-> q]
          /\ IF UseLlm(cfg)
             THEN pc' = FirstService(cfg) /\ ret' = ret
             ELSE pc' = "done" /\ ret' = RuleParse(metrics, q, today)
    /\ op' = "api_parse"
    /\ UNCHANGED <<today, reply, requests, ret2, metricflow_client, openai_api_key>>

\* the service asked answers; parse() goes on to its result or, dropping
\* the exception, to the request to the other service (lines 277-324);
\* `reply` is the outcome of the request parse() ends on
ServiceAnswers ==
    LET Answered(outcome, llm) ==
            /\ requests' = IF outcome = Failed("ImportError") THEN requests
                            ELSE Append(requests, pc)
            /\ openai_api_key' = IF pc = "openai" /\ outcome # Failed("ImportError")
                                 THEN args.cfg.api_key
                                 ELSE openai_api_key
            /\ IF llm.ok
               THEN /\ pc' = "done" /\ reply' = outcome
                    /\ ret' = Merge(llm.obj, args.metrics, args.query, today)
               ELSE IF pc = "deepseek" /\ HasFallback(args.cfg)
               THEN pc' = "openai" /\ reply' = reply /\ ret' = ret
               ELSE /\ pc' = "done" /\ reply' = outcome
                    /\ ret' = RuleParse(args.metrics, args.query, today)
    IN /\ pc \in {"deepseek", "openai"}
       /\ \E outcome \in Outcomes : Answered(outcome, ParseWithService(outcome, today))
       /\ UNCHANGED <<today, op, args, ret2, metricflow_client>>

\* generate_metric_sql(metric, semantic_model, dimensions, start_date,
\* end_date, filters)
Compile ==
    /\ pc = "idle"
    /\ \E metric \in MetricDefs, sm \in SemanticModels, dims \in DimLists,
          range \in DateBounds, filters \in FilterMaps :
          /\ args' = [metric |-> metric, sm |-> sm, dimensions |-> dims,
                      start_date |-> range[1], end_date |-> range[2], filters |-> filters]
          /\ ret' = GenerateMetricSql(metric, sm, dims, range[1], range[2], filters)
    /\ pc' = "done" /\ op' = "compile"
    /\ UNCHANGED <<today, reply, requests, ret2, metricflow_client, openai_api_key>>

\* generate_metric_sql called again with the arguments of the call before
Recompile ==
    /\ pc = "done" /\ op = "compile"
    /\ ret2' = GenerateMetricSql(args.metric, args.sm, args.dimensions, args.start_date,
                                 args.end_date, args.filters)
    /\ pc' = "again"
    /\ UNCHANGED <<today, op, args, reply, requests, ret, metricflow_client, openai_api_key>>

\* query_metric(query); `reply` is what query_metrics answered
QueryMetricCall ==
    LET Called(q, env, cfg, db, r) ==
            /\ args' = [query |-> q, env |-> env, cfg |-> cfg, db |-> db,
                        client |-> metricflow_client]
            /\ metricflow_client' = r.client /\ requests' = r.calls /\ ret' = r.ret
            /\ reply' = [k |-> "metricflow", exc |-> "", text |-> <<>>,
                         mf_result |-> r.mf_result]
    IN /\ pc = "idle"
       /\ \E q \in MetricQueries, env \in EnvsOf(MfEnvs, metricflow_client), cfg \in ServiceConfigs, db \in DbOutcomes :
             Called(q, env, cfg, db, QueryMetric(metricflow_client, q, env, cfg, db))
       /\ pc' = "done" /\ op' = "query_metric"
       /\ UNCHANGED <<today, ret2, openai_api_key>>

\* query_metric_natural(nl_query); its parser's _parse_with_openai leaves
\* its key in openai.api_key (line 434)
QueryMetricNaturalCall ==
    LET Asks(nl, osenv) == nl.use_llm /\ UseLlm(NaturalConfig(nl, osenv))
        Route(nl, osenv) == FirstService(NaturalConfig(nl, osenv))
        Called(nl, osenv, cfg, db, outcome) ==
            /\ args' = [nl_query |-> nl, osenv |-> osenv, cfg |-> cfg, db |-> db,
                        outcome |-> outcome]
            /\ ret' = QueryMetricNatural(nl, osenv, cfg, db, outcome, today)
            /\ IF cfg.metrics # <<>> /\ Asks(nl, osenv)
               THEN /\ reply' = outcome /\ requests' = <<Route(nl, osenv)>>
                    /\ openai_api_key' = IF Route(nl, osenv) = "openai"
                                         THEN NaturalConfig(nl, osenv).api_key
                                         ELSE openai_api_key
               ELSE /\ reply' = NoReply /\ requests' = <<>>
                    /\ openai_api_key' = openai_api_key
    IN /\ pc = "idle"
       /\ \E nl \in NaturalQueries, osenv \in OsEnvs, cfg \in ServiceConfigs,
             db \in {"rows", "error"}, outcome \in NaturalOutcomes :
             /\ (cfg.metrics = <<>> \/ ~Asks(nl, osenv)) => outcome = Failed("Timeout")
             /\ Called(nl, osenv, cfg, db, outcome)
       /\ pc' = "done" /\ op' = "query_natural"
       /\ UNCHANGED <<today, ret2, metricflow_client>>

\* get_metricflow_client().list_metrics()
ClientListMetrics ==
    LET Called(env, r) ==
            /\ args' = [env |-> env, client |-> metricflow_client]
            /\ metricflow_client' = r.client /\ requests' = r.calls
            /\ ret' = [ok |-> TRUE, value |-> r.ret]
    IN /\ pc = "idle"
       /\ \E env \in EnvsOf(ListEnvs, metricflow_client) :
             Called(env, ListMetrics(GetMetricflowClient(metricflow_client, env), env))
       /\ pc' = "done" /\ op' = "list_metrics"
       /\ UNCHANGED <<today, reply, ret2, openai_api_key>>

\* get_metricflow_client().generate_sql(...)
ClientGenerateSql ==
    LET Called(env, r) ==
            /\ args' = [env |-> env, client |-> metricflow_client]
            /\ metricflow_client' = r.client /\ requests' = r.calls
            /\ ret' = IF "ok" \in DOMAIN r.ret THEN r.ret ELSE [ok |-> TRUE, value |-> r.ret]
    IN /\ pc = "idle"
       /\ \E env \in EnvsOf(MfEnvs, metricflow_client) :
             Called(env, GenerateSql(GetMetricflowClient(metricflow_client, env), env))
       /\ pc' = "done" /\ op' = "generate_sql"
       /\ UNCHANGED <<today, reply, ret2, openai_api_key>>

\* _parse_with_openai(prompt, query) up to line 434: the parser's key is
\* put in the module attribute openai.api_key
OpenaiSetKey ==
    /\ pc = "idle"
    /\ \E key \in ApiKeys : args' = [api_key |-> key] /\ openai_api_key' = key
    /\ pc' = "openai_key_set" /\ op' = "parse_with_openai"
    /\ UNCHANGED <<today, reply, requests, ret, ret2, metricflow_client>>

\* _parse_with_openai from line 435: openai.ChatCompletion.create is given
\* no key and sends the one openai.api_key holds; then the reply is decoded
OpenaiCreate ==
    /\ pc = "openai_key_set"
    /\ \E outcome \in NaturalOutcomes :
          /\ reply' = [k |-> outcome.k, exc |-> outcome.exc, text |-> outcome.text,
                       api_key |-> openai_api_key]
          /\ ret' = ParseWithService(outcome, today)
    /\ requests' = <<"openai">>
    /\ pc' = "done"
    /\ UNCHANGED <<today, op, args, ret2, metricflow_client, openai_api_key>>

\* a parser with other credentials reaches line 434 in another thread while
\* this call is between lines 434 and 435
OtherCallerSetsKey ==
    /\ pc = "openai_key_set"
    /\ \E key \in ApiKeys : key # openai_api_key /\ openai_api_key' = key
    /\ UNCHANGED <<today, pc, op, args, reply, requests, ret, ret2, metricflow_client>>

\* the rule-based resolver
NextRule == Tick \/ Return \/ Parse

SpecRule == Init /\ [][NextRule]_vars

\* the LLM-assisted resolver and its date repair
NextApi == Tick \/ Return \/ FixDates \/ ApiParse \/ ServiceAnswers

SpecApi == Init /\ [][NextApi]_vars

\* both resolvers
NextResolvers == Tick \/ Return \/ Parse \/ FixDates \/ ApiParse \/ ServiceAnswers

SpecResolvers == Init /\ [][NextResolvers]_vars

\* the compiler
NextCompiler == Tick \/ Return \/ Compile \/ Recompile

SpecCompiler == Init /\ [][NextCompiler]_vars

\* the service: its query endpoints, its MetricFlow client and the calls
\* made on the OpenAI library
NextService ==
    \/ Return \/ QueryMetricCall \/ QueryMetricNaturalCall \/ ClientListMetrics
    \/ ClientGenerateSql \/ OpenaiSetKey \/ OpenaiCreate \/ OtherCallerSetsKey

SpecService == Init /\ [][NextService]_vars

\* the whole library
Next == NextRule \/ NextApi \/ NextCompiler \/ NextService

Spec == Init /\ [][Next]_vars

-----------------------------------------------------------------------------
(* Properties of the resolvers *)

\* a returned call of each kind
ParseDone == pc = "done" /\ op = "parse"
ApiDone == pc = "done" /\ op = "api_parse"
FixDone == pc = "done" /\ op = "fix_dates"

\* two reply objects that differ at most in their date fields
SameButDates(o1, o2) ==
    LET Dates == {"start_date", "end_date", "time_keyword"}
    IN /\ DOMAIN o1 \ Dates = DOMAIN o2 \ Dates
       /\ \A key \in DOMAIN o1 \ Dates : o1[key] = o2[key]

\* C1, as stated: when the reply decodes to a non-empty object, the dates
\* LLMQueryParserWithAPI.parse returns are those LLMQueryParser.parse computes
\* for the text at the same clock, and a reply that differs from the one
\* received only in start_date, end_date or time_keyword would have given
\* the same result.  (Configurations without a second service, so that the
\* result is a function of the one reply.)
C1_DatesLocalWhateverTheReply ==
    (ApiDone /\ reply.k = "reply" /\ ~HasFallback(args.cfg)) =>
        LET j    == ExtractJson(reply.text)
            rule == RuleParse(args.metrics, args.query, today)
            Used(l) == IF l.ok THEN Merge(l.obj, args.metrics, args.query, today) ELSE rule
            ResultFor(o) == Used(ValidateAndFixDates(o, today))
        IN (j.ok /\ j.obj # EmptyObj) =>
              /\ ret.ok = rule.ok
              /\ ret.ok => ret.start_date = rule.start_date /\ ret.end_date = rule.end_date
              /\ \A o \in ReplyObjs :
                    (o # EmptyObj /\ SameButDates(j.obj, o)) => ResultFor(o) = ret

\* the request parse() ended on failed in one of the ways C2 lists
RequestFailed ==
    \/ reply.k = "error" /\ reply.exc \in {"ConnectionError", "Timeout", "HTTPError"}
    \/ reply.k = "reply" /\ ~ExtractJson(reply.text).ok

C3_ValidDatesMovedToCurrentYear ==
    (FixDone /\ ret.ok) =>
        \A f \in {"start_date", "end_date"} \cap DOMAIN args.obj :
            LET val   == args.obj[f]
                p     == Strptime(val.v)
                now   == Ord2Ymd(today)
                moved == ZFill(StrOf(now[1]), 4) \o <<"-">> \o ZFill(StrOf(p[3]), 2)
                           \o <<"-">> \o ZFill(StrOf(p[4]), 2)
                later == p[3] > now[2] \/ (p[3] = now[2] /\ p[4] > now[3])
            IN (val.k = "str" /\ p[1] /\ p[2] # now[1]) =>
                  ret.obj[f] = Str(IF later THEN Strftime(today) ELSE moved)

\* no lookup key of the registry and no domain keyword occurs in the text
NoMetricMatch ==
    LET ql == Lower(args.query)
        mm == MetricMap(args.metrics)
    IN /\ \A i \in 1..Len(mm) : ~InStr(mm[i][1], ql)
       /\ ~AnyDomainKeyword(ql)

\* C9, as stated: LLMQueryParser.parse on a non-empty registry returns a
\* result for every text, and the result names the registry's first metric
\* when no lookup key and no domain keyword matches.
C9_ParseNeverFails ==
    (ParseDone /\ args.metrics # <<>>) =>
        IF ret.ok
        THEN NoMetricMatch => ret.metric_name = Str(args.metrics[1].name)
        ELSE FALSE

\* C10: when the text holds explicit dates, start is the first and end is
\* the second (the first again when there is only one), whatever time
\* keywords the text holds as well.
C10_ExplicitDatesBeatKeywords ==
    ParseDone =>
        LET dates == FindDates(args.query)
        IN dates # <<>> =>
              /\ ret.ok
              /\ ret.start_date = Str(FormatYmd(dates[1]))
              /\ ret.end_date = Str(FormatYmd(dates[IF Len(dates) = 1 THEN 1 ELSE 2]))

\* C10's case: two dates next to the keyword "Today"
C10_Witness ==
    /\ ParseDone /\ ret.ok
    /\ InStr(<<"today">>, Lower(args.query))
    /\ Len(FindDates(args.query)) = 2
    /\ ret.start_date = Str(<<"2", "0", "2", "5", "-", "0", "1", "-", "0", "7">>)
    /\ ret.end_date = Str(Date3)

-----------------------------------------------------------------------------
(* Properties of the compiler *)

\* generate_metric_sql has returned, once or twice
Compiled == op = "compile" /\ pc \in {"done", "again"}

\* the metric's type and the measure a parameter of it names, if any
TypeOf(metric) == IF "type" \in DOMAIN metric THEN metric.type ELSE "None"
Names(metric, key) ==
    "type_params" \in DOMAIN metric /\ key \in DOMAIN metric.type_params
MeasureOf(metric, sm, key) ==
    CHOOSE m \in {sm.measures[i] : i \in 1..Len(sm.measures)} :
        m.name = metric.type_params[key]
Known(metric, sm, key) ==
    /\ Names(metric, key)
    /\ \E i \in 1..Len(sm.measures) : sm.measures[i].name = metric.type_params[key]

\* C4: a simple metric whose measure the semantic model does not have, or
\* that names no measure, makes generate_metric_sql raise; no SQL text is
\* returned.
C4_MissingMeasureRaises ==
    (Compiled /\ TypeOf(args.metric) = "simple" /\ ~Known(args.metric, args.sm, "measure")) =>
        /\ ~ret.ok /\ ret.exc = "ValueError"
        /\ "sql" \notin DOMAIN ret

\* C4's case: the metric names a measure no semantic model has
C4_Witness ==
    /\ Compiled
    /\ args.metric = [type |-> "simple", type_params |-> [measure |-> "ghost_measure"]]
    /\ ~ret.ok /\ ret.msg = "measure not found"

\* the ways an aggregate opens
AggOpeners == {"SUM(", "AVG(", "AVERAGE(", "COUNT(", "MAX(", "MIN("}

\* C5: for a ratio metric whose two measures exist, the SQL text holds the
\* aggregate of the numerator, then * 100.0 /, then the aggregate of the
\* denominator, as metric_value.
C5_RatioIsPercentage ==
    (/\ Compiled /\ TypeOf(args.metric) = "ratio"
     /\ Known(args.metric, args.sm, "numerator")
     /\ Known(args.metric, args.sm, "denominator")) =>
        /\ ret.ok
        /\ \E a, b \in AggOpeners :
              InStr(<<a>> \o MeasureOf(args.metric, args.sm, "numerator").expr.v
                      \o <<")", " * 100.0 / ", b>>
                      \o MeasureOf(args.metric, args.sm, "denominator").expr.v
                      \o <<")", " as metric_value">>,
                    ret.sql)

\* C5's case: the rate of normal transactions
C5_Witness ==
    /\ Compiled /\ ret.ok
    /\ args.metric.type = "ratio"
    /\ InStr(<<"SUM(", "is_normal", ")", " * 100.0 / ", "COUNT(", "transaction_id", ")",
               " as metric_value">>, ret.sql)

\* the WHERE condition a filter item stands for
Condition(item) ==
    IF item.val.k = "list"
    THEN <<" AND ", item.key, " IN (">>
           \o JoinWith(", ", [i \in 1..Len(item.val.v) |-> <<"'", item.val.v[i], "'">>])
           \o <<")">>
    ELSE <<" AND ", item.key, " = '">> \o item.val.v \o <<"'">>

\* C6, as stated: every filter item whose key is a dimension of the semantic
\* model has its condition in the SQL text, whether or not the dimension is
\* among the requested ones.
C6_SemanticFiltersApplied ==
    (Compiled /\ ret.ok) =>
        \A i \in 1..Len(args.filters) :
            InList(args.filters[i].key, args.sm.dimensions) =>
                InStr(Condition(args.filters[i]), ret.sql)

\* C7: a filter item whose key is no dimension of the semantic model changes
\* neither whether generate_metric_sql raises (that is the metric's matter)
\* nor the SQL text, which never holds the key.
C7_UnknownFilterKeyDropped ==
    Compiled =>
        \A i \in 1..Len(args.filters) :
            ~InList(args.filters[i].key, args.sm.dimensions) =>
                /\ ret.ok = MetricExpr(args.metric, args.sm).ok
                /\ ret.ok => \A j \in 1..Len(ret.sql) : ret.sql[j] # args.filters[i].key

\* C7's case: an unknown key next to a known one, which is applied
C7_Witness ==
    /\ Compiled /\ ret.ok
    /\ Len(args.filters) = 2
    /\ args.filters[1].key = "ghost_dim"
    /\ InStr(<<" AND ", "city", " = '", "bj", "'">>, ret.sql)

-----------------------------------------------------------------------------
(* Properties of the rule-based time range *)

\* the text holds no explicit date, so the time keywords decide the range
NoDates == FindDates(args.query) = <<>>

\* the keyword of each branch of lines 170-186 occurs in the text
HasToday(q) == InStr(<<"jin1", "tian1">>, q) \/ InStr(<<"today">>, Lower(q))
HasYesterday(q) == InStr(<<"zuo2", "tian1">>, q) \/ InStr(<<"yesterday">>, Lower(q))
HasThisWeek(q) == InStr(<<"ben3", "zhou1">>, q) \/ InStr(<<"this week">>, Lower(q))
HasThisMonth(q) == InStr(<<"ben3", "yue4">>, q) \/ InStr(<<"this month">>, Lower(q))
HasRecent(q) == InStr(<<"zui4", "jin4">>, q) \/ InStr(<<"last">>, Lower(q))

\* the "last"/"recent" keyword starts at position i of the text
RecentAt(q, i) == MatchAt(<<"zui4", "jin4">>, q, i) \/ MatchAt(<<"last">>, Lower(q), i)

\* the words that make a number a count of days
DayUnits == {"tian1", " days"}

\* the positions after a "last"/"recent" keyword where a day count starts
CountsAfterRecent(q) ==
    {j \in 1..Len(q) :
        /\ IsDigit(q[j]) /\ (j = 1 \/ ~IsDigit(q[j - 1]))
        /\ RunEnd(q, j) + 1 <= Len(q) /\ q[RunEnd(q, j) + 1] \in DayUnits
        /\ \E i \in 1..(j - 1) : RecentAt(q, i)}

\* the day count at position j
CountAt(q, j) == IntOf(SubSeq(q, j, RunEnd(q, j)))

\* C11, as stated: when "last"/"recent" decides the range and a day count N
\* follows the keyword, parse returns start = today - (N - 1) days and
\* end = today.
C11_RecentWindowIsTheCountGiven ==
    (/\ ParseDone /\ NoDates
     /\ ~HasToday(args.query) /\ ~HasYesterday(args.query)
     /\ ~HasThisWeek(args.query) /\ ~HasThisMonth(args.query)
     /\ CountsAfterRecent(args.query) # {}) =>
        LET Window(n) ==
                /\ ret.ok /\ DateMinusOk(today, n - 1)
                /\ ret.start_date = Str(Strftime(today - (n - 1)))
                /\ ret.end_date = Str(Strftime(today))
            First(js) == CHOOSE j \in js : \A k \in js : j <= k
        IN Window(CountAt(args.query, First(CountsAfterRecent(args.query))))

-----------------------------------------------------------------------------
(* Properties of the LLM-assisted resolver's requests and replies *)

\* C12, as stated: one call of LLMQueryParserWithAPI.parse sends at most one
\* request to an external service, whatever the provider and the model.
C12_AtMostOneRequest ==
    op = "api_parse" => Len(requests) <= 1

\* a date value strptime does not accept: no str, or no YYYY-MM-DD date
Malformed(val) == val.k # "str" \/ ~Strptime(val.v)[1]

\* C13, as stated: _validate_and_fix_dates returns, without raising, an
\* object in which every start_date or end_date that was no well-formed
\* date (a malformed string or a value that is no string) is unchanged.
C13_MalformedDatesLeftAlone ==
    FixDone =>
        \A f \in {"start_date", "end_date"} \cap DOMAIN args.obj :
            Malformed(args.obj[f]) => ret.ok /\ ret.obj[f] = args.obj[f]

\* what parse() returns when the object o is decoded from the reply
ResultOfObject(o) ==
    LET Used(l) == IF l.ok THEN Merge(l.obj, args.metrics, args.query, today)
                   ELSE RuleParse(args.metrics, args.query, today)
    IN Used(ValidateAndFixDates(o, today))

\* the pieces of a reply text at which a brace opens
Opens(text) == {i \in 1..Len(text) : text[i].k \in {"lbrace", "obj", "badblock"}}

\* C14, as stated: when the first braced block of the reply text is a
\* well-formed JSON object and more text follows it, that object is what
\* is decoded, and parse() returns the result that object gives.
C14_FirstObjectDecoded ==
    (ApiDone /\ reply.k = "reply") =>
        LET Decodes(text, first) ==
                (text[first].k = "obj" /\ first < Len(text)) =>
                    /\ ExtractJson(text) = [ok |-> TRUE, obj |-> text[first].o]
                    /\ ret = ResultOfObject(text[first].o)
            First(opens) == CHOOSE i \in opens : \A j \in opens : i <= j
        IN Opens(reply.text) # {} => Decodes(reply.text, First(Opens(reply.text)))

-----------------------------------------------------------------------------
(* Properties of the compiled SQL *)

\* the configuration failure of a metric definition against a semantic
\* model, by the three kinds; "none" when the definition is sound
FailureKind(metric, sm) ==
    IF TypeOf(metric) = "simple"
    THEN IF Known(metric, sm, "measure") THEN "none" ELSE "UnknownMeasure"
    ELSE IF TypeOf(metric) = "ratio"
    THEN IF ~Names(metric, "numerator") \/ ~Names(metric, "denominator")
         THEN "MissingRatioOperand"
         ELSE IF Known(metric, sm, "numerator") /\ Known(metric, sm, "denominator")
         THEN "none" ELSE "UnknownMeasure"
    ELSE "UnsupportedMetricType"

\* C15, as stated: generate_metric_sql fails for each of the three kinds of
\* configuration failure, and the error it raises for one kind is never
\* the error it raises for a definition with a failure of another kind.
C15_FailureKindsDistinguishable ==
    (Compiled /\ FailureKind(args.metric, args.sm) # "none") =>
        /\ ~ret.ok
        /\ \A metric \in MetricDefs, sm \in SemanticModels :
              FailureKind(metric, sm) \notin {"none", FailureKind(args.metric, args.sm)}
                  => MetricExpr(metric, sm) # ret

\* the SQL function the aggregation of a measure maps to (sum when the
\* measure names none), and the measure wrapped in it
SqlFunction(measure) ==
    LET Opener(agg) ==
            IF agg = "sum" THEN "SUM("
            ELSE IF agg = "average" THEN "AVG("
            ELSE IF agg = "count" THEN "COUNT("
            ELSE UpperAtom(agg) \o "("
    IN Opener(IF "agg" \in DOMAIN measure THEN measure.agg ELSE "sum")
Wrapped(measure) == <<SqlFunction(measure)>> \o measure.expr.v \o <<")">>

\* C16, as stated: in the SQL text the measure of a simple metric, and the
\* numerator and the denominator of a ratio metric, each stand wrapped in
\* SUM for sum, AVG for average, COUNT for count, and the upper-cased name
\* for any other aggregation.
C16_MeasuresWrappedByAggregation ==
    (Compiled /\ FailureKind(args.metric, args.sm) = "none") =>
        /\ ret.ok
        /\ IF TypeOf(args.metric) = "simple"
           THEN InStr(Wrapped(MeasureOf(args.metric, args.sm, "measure"))
                        \o <<" as metric_value">>, ret.sql)
           ELSE /\ InStr(Wrapped(MeasureOf(args.metric, args.sm, "numerator")), ret.sql)
                /\ InStr(Wrapped(MeasureOf(args.metric, args.sm, "denominator"))
                           \o <<" as metric_value">>, ret.sql)

\* the dimensions a call asks to group by, in request order
Requested == IF Truthy(args.dimensions) THEN args.dimensions.v ELSE <<>>

\* s begins with, and ends with, the atoms of part
StartsWith(s, part) == Len(part) <= Len(s) /\ SubSeq(s, 1, Len(part)) = part
EndsWith(s, part) ==
    Len(part) <= Len(s) /\ SubSeq(s, Len(s) - Len(part) + 1, Len(s)) = part

\* C17: the SQL text opens with SELECT, the time column, the requested
\* dimensions the semantic model has, in request order, and the metric
\* expression last; a requested dimension the model does not have is
\* nowhere in the text, and whether the call raises is the metric's matter.
C17_ProjectionList ==
    Compiled =>
        LET known == SelectSeq(Requested, LAMBDA d : InList(d, args.sm.dimensions))
            Projection(expr) ==
                <<"SELECT ", "transaction_date">>
                  \o Cat([i \in 1..Len(known) |-> <<", ", known[i]>>])
                  \o <<", ">> \o expr \o <<"\n", "FROM ">>
        IN /\ ret.ok = MetricExpr(args.metric, args.sm).ok
           /\ ret.ok =>
                 /\ StartsWith(ret.sql, Projection(MetricExpr(args.metric, args.sm).expr))
                 /\ \A i \in 1..Len(Requested) :
                       ~InList(Requested[i], args.sm.dimensions) =>
                           \A j \in 1..Len(ret.sql) : ret.sql[j] # Requested[i]

\* C17's case: an unknown dimension asked for before a known one
C17_Witness ==
    /\ Compiled /\ ret.ok
    /\ Requested = <<"ghost_dim", "station_name">>
    /\ StartsWith(ret.sql, <<"SELECT ", "transaction_date", ", ", "station_name", ", ",
                             "SUM(", "toll_amount", ")", " as metric_value", "\n">>)

\* the atoms of s between the first occurrence of the atom `open` and the
\* next "\n" after it
LineAfter(s, open) ==
    LET Upto(from, ends) == SubSeq(s, from, (CHOOSE e \in ends : \A f \in ends : e <= f) - 1)
        After(from) == Upto(from, {e \in from..Len(s) : s[e] = "\n"})
    IN After(1 + CHOOSE i \in 1..Len(s) : s[i] = open /\ \A j \in 1..(i - 1) : s[j] # open)

\* C18: in the SQL text the GROUP BY list is the projection list without
\* its last column, the metric value; the text ends with ORDER BY the time
\* column; the WHERE clause opens with 1=1 and holds a lower (upper) bound
\* on the time column exactly when start_date (end_date) was given.
C18_GroupOrderAndTimeBounds ==
    (Compiled /\ ret.ok) =>
        LET Grouped(projection, group) ==
                /\ StartsWith(projection, group \o <<", ">>)
                /\ \A i \in (Len(group) + 2)..Len(projection) : projection[i] # ", "
                /\ projection[Len(projection)] = " as metric_value"
                /\ EndsWith(ret.sql, <<" GROUP BY ">> \o group
                                       \o <<"\n", " ORDER BY ", "transaction_date">>)
            Bound(cmp, date) ==
                IF date # None
                THEN InStr(<<" AND ", "transaction_date", cmp>> \o date.v \o <<"'", "\n">>,
                           ret.sql)
                ELSE \A i \in 1..Len(ret.sql) : ret.sql[i] # cmp
        IN /\ Grouped(LineAfter(ret.sql, "SELECT "), LineAfter(ret.sql, " GROUP BY "))
           /\ InStr(<<"\n", "WHERE 1=1", "\n">>, ret.sql)
           /\ Bound(" >= '", args.start_date)
           /\ Bound(" <= '", args.end_date)

\* C18's case: two dimensions, a lower bound and no upper bound
C18_Witness ==
    /\ Compiled /\ ret.ok
    /\ args.start_date = Str(Date1) /\ args.end_date = None
    /\ InStr(<<"WHERE 1=1", "\n", " AND ", "transaction_date", " >= '">> \o Date1, ret.sql)
    /\ EndsWith(ret.sql, <<" GROUP BY ", "transaction_date", ", ", "station_name", ", ",
                           "city", "\n", " ORDER BY ", "transaction_date">>)

\* the most recent Monday on or before the day, and the first day of its month
MondayOf(day) == CHOOSE d \in (day - 6)..day : Weekday(d) = 0
FirstOfMonth(day) == Ymd2Ord(Ord2Ymd(day)[1], Ord2Ymd(day)[2], 1)

\* C19: without an explicit date the first keyword in the order today,
\* yesterday, this week, this month, last/recent that the text holds
\* decides the range, whatever keywords of lower priority it holds as well:
\* today is today, yesterday the day before, this week runs from the most
\* recent Monday through today, this month from the first day of the month
\* through today (the range of last/recent is C11's matter); with no
\* keyword both bounds are unset.
C19_KeywordPriority ==
    (ParseDone /\ NoDates) =>
        LET Is(start, end) ==
                ret.ok /\ ret.start_date = Str(Strftime(start)) /\ ret.end_date = Str(Strftime(end))
        IN IF HasToday(args.query) THEN Is(today, today)
           ELSE IF HasYesterday(args.query) THEN Is(today - 1, today - 1)
           ELSE IF HasThisWeek(args.query) THEN Is(MondayOf(today), today)
           ELSE IF HasThisMonth(args.query) THEN Is(FirstOfMonth(today), today)
           ELSE IF HasRecent(args.query) THEN TRUE
           ELSE ret.ok /\ ret.start_date = None /\ ret.end_date = None

\* C19's case: "this week" and "this month" in one text, in either order,
\* on a day whose Monday is not the first of the month
C19_Witness ==
    /\ ParseDone /\ NoDates /\ ret.ok
    /\ HasThisWeek(args.query) /\ HasThisMonth(args.query)
    /\ ~HasToday(args.query) /\ ~HasYesterday(args.query)
    /\ MondayOf(today) # FirstOfMonth(today)
    /\ ret.start_date = Str(Strftime(MondayOf(today)))

-----------------------------------------------------------------------------
(* Properties of the rule-based metric *)

\* the generic concepts of line 122, each by its Chinese and English word
Concepts ==
    { [zh |-> <<"shou1", "ru4">>, en |-> <<"revenue">>],
      [zh |-> <<"jiao1", "yi4">>, en |-> <<"transaction">>],
      [zh |-> <<"zhi4", "liang4">>, en |-> <<"quality">>] }

\* the concept occurs in the lowercased query; the metric is of the concept
Asked(c, ql) == InStr(c.zh, ql) \/ InStr(c.en, ql)
OfConcept(metric, c) == InStr(c.zh, metric.label) \/ InStr(c.en, metric.name)

\* no key of metric_map occurs in the lowercased query
NoLookupKey ==
    LET Misses(mm, ql) == \A i \in 1..Len(mm) : ~InStr(mm[i][1], ql)
    IN Misses(MetricMap(args.metrics), Lower(args.query))

\* C20, as stated: when no lookup key occurs in the query and a generic
\* domain keyword does, the metric returned is the first metric of the
\* registry that is of a concept the query asks for.
C20_HeuristicFollowsTheConcept ==
    (ParseDone /\ ret.ok /\ NoLookupKey) =>
        LET Fits(ql, k) == \E c \in Concepts : Asked(c, ql) /\ OfConcept(args.metrics[k], c)
            FirstFit(ql) ==
                \A k \in 1..Len(args.metrics) :
                    (Fits(ql, k) /\ \A j \in 1..(k - 1) : ~Fits(ql, j))
                        => ret.metric_name = Str(args.metrics[k].name)
        IN FirstFit(Lower(args.query))

-----------------------------------------------------------------------------
(* Properties of the rule-based dimensions *)

\* the positions of the lowercased text at which a keyword of the
\* dimension starts, and the first of them
KeywordPositions(dim, ql) ==
    {i \in 1..Len(ql) :
        \E k \in 1..Len(DimensionMap) :
            DimensionMap[k][2] = dim /\ MatchAt(Lower(DimensionMap[k][1]), ql, i)}
FirstPosition(dim, ql) ==
    CHOOSE i \in KeywordPositions(dim, ql) : \A j \in KeywordPositions(dim, ql) : i <= j

\* C21, as stated: the dimensions parse returns are the target dimensions
\* of the keywords the text holds, each once, in the order in which the
\* dimensions first appear in the text.
C21_DimensionsInTextOrder ==
    (ParseDone /\ ret.ok) =>
        LET InOrder(dims, ql) ==
                /\ {dims[i] : i \in 1..Len(dims)}
                      = {DimensionMap[k][2] : k \in {n \in 1..Len(DimensionMap) :
                                                       InStr(Lower(DimensionMap[n][1]), ql)}}
                /\ \A i, j \in 1..Len(dims) :
                      i < j => /\ dims[i] # dims[j]
                               /\ FirstPosition(dims[i], ql) < FirstPosition(dims[j], ql)
        IN InOrder(ret.dimensions.v, Lower(args.query))

\* C24, as stated: every dimension in a result of either resolver is one
\* of the available dimensions the resolver was constructed with.
C24_DimensionsAreAvailable ==
    ((ParseDone \/ ApiDone) /\ ret.ok) =>
        \A i \in 1..Len(ret.dimensions.v) : InList(ret.dimensions.v[i], args.available)

-----------------------------------------------------------------------------
(* Properties of the hybrid merge and of the returned ranges *)

\* C27, as stated: when the reply is decoded and repaired to a non-empty
\* object, the result carries the object's metric_name (a non-empty
\* string), its dimensions list and its filters map, empty or not, and the
\* rule-based value only for a field the object does not hold.
C27_ReplyFieldsTakenAsTheyAre ==
    (ApiDone /\ reply.k = "reply" /\ ret.ok) =>
        LET Field(obj, rule, f, kind) ==
                IF f \in DOMAIN obj
                THEN (obj[f].k = kind /\ (kind = "str" => obj[f].v # <<>>)) => ret[f] = obj[f]
                ELSE ret[f] = rule[f]
            Carried(obj, rule) ==
                /\ Field(obj, rule, "metric_name", "str")
                /\ Field(obj, rule, "dimensions", "list")
                /\ Field(obj, rule, "filters", "dict")
            Merged(llm) ==
                (llm.ok /\ llm.obj # EmptyObj) =>
                    Carried(llm.obj, RuleParse(args.metrics, args.query, today))
        IN Merged(ParseWithService(reply, today))

\* the day a date string names, when strptime accepts it
IsDate(val) == val.k = "str" /\ Strptime(val.v)[1]
DayOf(val) ==
    LET Day(p) == Ymd2Ord(p[2], p[3], p[4])
    IN Day(Strptime(val.v))

\* C25, as stated: every start_date and end_date the rule-based resolver
\* returns is null or a ten-character YYYY-MM-DD date of the calendar.
C25_ReturnedDatesAreCalendarDates ==
    (ParseDone /\ ret.ok) =>
        \A val \in {ret.start_date, ret.end_date} :
            val # None => IsDate(val) /\ Len(val.v) = 10

\* C28: in every result of either resolver start_date is null exactly when
\* end_date is null.
C28_NoHalfOpenRange ==
    ((ParseDone \/ ApiDone) /\ ret.ok) =>
        (ret.start_date = None <=> ret.end_date = None)

\* C28's case: the reply holds an end_date and no start_date, is merged,
\* and the result has neither bound
C28_Witness ==
    /\ ApiDone /\ reply.k = "reply" /\ ret.ok
    /\ Len(reply.text) = 1 /\ reply.text[1].k = "obj"
    /\ "end_date" \in DOMAIN reply.text[1].o /\ "start_date" \notin DOMAIN reply.text[1].o
    /\ ret.metric_name = Str(<<"daily_", "transaction", "s">>)
    /\ ret.start_date = None /\ ret.end_date = None

\* C29, as stated: when the rule-based resolver returns both bounds, the
\* start is not after the end.
C29_StartNotAfterEnd ==
    (ParseDone /\ ret.ok /\ IsDate(ret.start_date) /\ IsDate(ret.end_date)) =>
        DayOf(ret.start_date) <= DayOf(ret.end_date)

-----------------------------------------------------------------------------
(* Properties of the service: the query endpoints and the MetricFlow client *)

\* a returned call of each kind
QueryDone == pc = "done" /\ op = "query_metric"
NaturalDone == pc = "done" /\ op = "query_natural"
GenerateSqlDone == pc = "done" /\ op = "generate_sql"
ListMetricsDone == pc = "done" /\ op = "list_metrics"
OpenaiDone == pc = "done" /\ op = "parse_with_openai"

\* the registry and the semantic model are loaded
Loaded(cfg) == cfg.metrics # <<>> /\ cfg.semantic_model # EmptyObj

\* what the compiler makes of the query with the loaded configuration
CompiledFor(q, cfg) ==
    GenerateMetricSql(cfg.metrics[FindMetric(cfg.metrics, q.metric_name)], cfg.semantic_model,
                      q.dimensions, q.start_date, q.end_date, q.filters)

\* C22: when query_metrics reports success=False or returns no SQL, the
\* answer of query_metric comes from the config-based compiler: a response
\* marked Config-based holding the compiler's SQL whenever the configuration
\* is loaded, holds the metric, compiles and executes, an HTTP failure
\* otherwise; a response marked MetricFlow holds the SQL of a successful
\* generation; a ValueError of the compiler in the fallback is raised to the
\* caller as an HTTP failure.
C22_FallbackToTheCompiler ==
    QueryDone =>
        LET Usable(mf) == ~("success" \in DOMAIN mf /\ ~mf.success) /\ Truthy(mf.sql)
            InRegistry(q, cfg) == Loaded(cfg) /\ FindMetric(cfg.metrics, q.metric_name) > 0
            ByCompiler(sql) ==
                ret.ok /\ ret.generated_by = "Config-based" /\ ret.query_sql = sql
            Fallback(q, cfg, db) ==
                /\ ret.ok => ret.generated_by = "Config-based"
                /\ ~ret.ok => ret.exc = "HTTPException"
                /\ (InRegistry(q, cfg) /\ CompiledFor(q, cfg).ok /\ db.config = "rows")
                       => ByCompiler(CompiledFor(q, cfg).sql)
                /\ (InRegistry(q, cfg) /\ ~CompiledFor(q, cfg).ok)
                       => ~ret.ok /\ ret.exc = "HTTPException" /\ ret.status_code = 500
            Held(mf, q, cfg, db) ==
                /\ ~Usable(mf) => Fallback(q, cfg, db)
                /\ (ret.ok /\ ret.generated_by = "MetricFlow")
                       => Usable(mf) /\ ret.query_sql = mf.sql.v
        IN Held(reply.mf_result, args.query, args.cfg, args.db)

\* C22's case: the engine reports success=False and the compiler answers
C22_Witness ==
    /\ QueryDone /\ "success" \in DOMAIN reply.mf_result /\ ~reply.mf_result.success
    /\ ret.ok /\ ret.generated_by = "Config-based"
    /\ ret.query_sql = CompiledFor(args.query, args.cfg).sql

\* C23, as stated: a call observes only its own configuration and returns
\* what it would return when run alone: the request of _parse_with_openai
\* carries the key of its own parser, and query_metric and generate_sql
\* return what they return on a process that made no call before.
C23_CallsShareNoState ==
    /\ OpenaiDone => reply.api_key = args.api_key
    /\ QueryDone =>
          ret = QueryMetric(NoClient, args.query, args.env, args.cfg, args.db).ret
    /\ GenerateSqlDone =>
          ret.value = GenerateSql(GetMetricflowClient(NoClient, args.env), args.env).ret

\* the metric name query_metric_natural resolved, when it resolved one
NaturalResolved ==
    IF args.nl_query.use_llm
    THEN ParseAsking(NaturalConfig(args.nl_query, args.osenv), args.cfg.metrics,
                     args.nl_query.query, today, args.outcome)
    ELSE RuleParse(args.cfg.metrics, args.nl_query.query, today)

\* C26, as stated: a query whose metric is absent from the loaded registry
\* is answered by the fallback, and by both endpoints that use it, with an
\* HTTP 404.
C26_UnknownMetricIs404 ==
    LET Missing(name, cfg) == Loaded(cfg) /\ FindMetric(cfg.metrics, name) = 0
        NotFound == ~ret.ok /\ ret.exc = "HTTPException" /\ ret.status_code = 404
        Named(r) == r.ok /\ r.metric_name.k = "str" /\ Truthy(r.metric_name)
        Unknown(r, cfg) == Named(r) /\ Missing(r.metric_name.v, cfg)
    IN /\ (QueryDone /\ ~ret.ok /\ Missing(args.query.metric_name, args.cfg)) => NotFound
       /\ (NaturalDone /\ args.cfg.metrics # <<>>) =>
              (Unknown(NaturalResolved, args.cfg) => NotFound)

\* C30: on the client, _use_api never goes from False to True and an engine
\* once built is never replaced; a call on a client whose _use_api is False
\* reaches the command-line tool only; generate_sql returns a dict, with
\* success=True and the SQL or with success=False, sql=None and an error.
C30_ClientFallsBackForGood ==
    [][ /\ (metricflow_client.made /\ ~metricflow_client.use_api)
            => ~metricflow_client'.use_api
        /\ metricflow_client.mf_engine # NoEngine
            => metricflow_client'.mf_engine = metricflow_client.mf_engine
        /\ (pc = "idle" /\ op' \in {"generate_sql", "list_metrics", "query_metric"}
            /\ metricflow_client.made /\ ~metricflow_client.use_api)
            => requests' = <<"cli">>
        /\ op' = "generate_sql"
            => /\ ret'.ok /\ DOMAIN ret'.value \subseteq {"sql", "raw_output", "error", "success"}
               /\ ret'.value.success => ret'.value.sql.k = "str"
               /\ ~ret'.value.success
                     => ret'.value.sql = None /\ "error" \in DOMAIN ret'.value
      ]_vars

\* C30's case: generate_sql on a client whose _use_api an earlier call set
\* to False, at a time the Python API could be initialised: the tool alone
\* is reached and the client stays as it was
C30_Witness ==
    /\ GenerateSqlDone /\ args.client.made /\ ~args.client.use_api
    /\ args.env.api_available /\ args.env.init \in Manifests
    /\ requests = <<"cli">> /\ metricflow_client = args.client
    /\ ret.ok /\ ret.value.success /\ ret.value.sql = Str(JoinLines(CliSql))

=============================================================================
